---- MODULE Spec2Model ----
(***************************************************************************)
(* Model of annotation/annotation_grabaciones.py: the sentence splitter,   *)
(* the context window, the alignment of the tagger's tokens onto the       *)
(* transcript's words, the two post-processing passes and main's skip      *)
(* policy.                                                                 *)
(*                                                                         *)
(* A Python str is a sequence of characters, a character a one-letter      *)
(* string.  A Python dict is a function whose DOMAIN is its key set, so    *)
(* that "k in d", d.get, d.pop and d[k] = v are what they are in the code. *)
(* A reference to a word object is the word's position in its segment.     *)
(***************************************************************************)
EXTENDS Naturals, Integers, Sequences, FiniteSets, TLC

\* ------------------------------------------------------------------ strings

\* str.lower(), on the characters the model's texts use.
LowerChar(c) ==
  CASE c = "S" -> "s"
    [] c = "E" -> "e"
    [] c = "H" -> "h"
    [] c = "M" -> "m"
    [] c = "T" -> "t"
    [] c = "A" -> "a"
    [] c = "V" -> "v"
    [] OTHER -> c

Lower(s) == [i \in 1..Len(s) |-> LowerChar(s[i])]

\* str.endswith(suffix)
EndsWith(s, suffix) ==
  /\ Len(s) >= Len(suffix)
  /\ SubSeq(s, Len(s) - Len(suffix) + 1, Len(s)) = suffix

\* str.strip(chars): drops the leading and the trailing characters in chars.
StripChars(s, chars) ==
  LET keep == {i \in 1..Len(s) : s[i] \notin chars}
  IN  IF keep = {} THEN <<>>
      ELSE LET first == CHOOSE i \in keep : \A j \in keep : i <= j
               last  == CHOOSE i \in keep : \A j \in keep : j <= i
           IN  SubSeq(s, first, last)

\* The characters str.strip() without argument removes.
WHITESPACE == {" ", "\t", "\n", "\r"}

Strip(s) == StripChars(s, WHITESPACE)

\* string.punctuation + the inverted marks.  The grave accent is written
\* "GRAVE": the lexer does not take the character itself in a string.
PUNCT_CHARS ==
  {"!", "\"", "#", "$", "%", "&", "'", "(", ")", "*", "+", ",", "-", ".",
   "/", ":", ";", "<", "=", ">", "?", "@", "[", "\\", "]", "^", "_", "GRAVE",
   "{", "|", "}", "~", "¿", "¡"}

strip_punct(token_text) == StripChars(token_text, PUNCT_CHARS)

\* ------------------------------------------------------------------ dicts

Has(d, k) == k \in DOMAIN d

\* d.get(k, default)
Get(d, k, default) == IF k \in DOMAIN d THEN d[k] ELSE default

\* d[k] = v
Put(d, k, v) == [f \in DOMAIN d \cup {k} |-> IF f = k THEN v ELSE d[f]]

\* d.pop(k, None)
Pop(d, k) == [f \in DOMAIN d \ {k} |-> d[f]]

\* d.update(other)
Update(d, other) ==
  [f \in DOMAIN d \cup DOMAIN other |-> IF f \in DOMAIN other THEN other[f] ELSE d[f]]

EmptyDict == [f \in {} |-> 0]

\* The sequence s with the elements at the positions idx, in idx's order.
Pick(s, idx) == [k \in 1..Len(idx) |-> s[idx[k]]]

RECURSIVE Flatten(_)
Flatten(ss) == IF ss = <<>> THEN <<>> ELSE Head(ss) \o Flatten(Tail(ss))

\* ------------------------------------------------------ sentence segmenter

sentence_ends == {<<".">>, <<"?">>, <<"!">>}

\* The test of line 60-61 without the .strip(): a text with trailing blanks
\* never closes a sentence.
IsSentenceEnd_Untrimmed(w) ==
  LET txt == Lower(Get(w, "text", <<>>))
  IN  txt # <<>> /\ \E se \in sentence_ends : EndsWith(txt, se)

IsSentenceEnd(w) ==
  LET txt == Lower(Strip(Get(w, "text", <<>>)))
  IN  txt # <<>> /\ \E se \in sentence_ends : EndsWith(txt, se)

\* The loop of split_into_sentences over words_list[k..]: sentences are the
\* closed sentences so far, current the open one; the words are their positions.
RECURSIVE SplitFrom(_, _, _, _)
SplitFrom(words_list, k, sentences, current) ==
  IF k > Len(words_list)
  THEN IF current # <<>> THEN Append(sentences, current) ELSE sentences
  ELSE LET cur == Append(current, k)
       IN  IF IsSentenceEnd(words_list[k])
           THEN SplitFrom(words_list, k + 1, Append(sentences, cur), <<>>)
           ELSE SplitFrom(words_list, k + 1, sentences, cur)

\* split_into_sentences without lines 66-67: the open sentence is not flushed.
split_into_sentences_Unflushed(words_list) ==
  LET all == SplitFrom(words_list, 1, <<>>, <<>>)
  IN  IF all # <<>> /\ ~IsSentenceEnd(words_list[Len(words_list)])
      THEN SubSeq(all, 1, Len(all) - 1)
      ELSE all

split_into_sentences(words_list) == SplitFrom(words_list, 1, <<>>, <<>>)

\* ------------------------------------------------------------ the tagger

\* What a spaCy token exposes to the script: text, is_punct, is_space, pos_,
\* lemma_, dep_, morph.to_dict() and head_text, the value of
\* "t.head.text if t.head else ''".  A feature's value is the set of its values.
Token(text, punct, pos, lemma, dep, head_text, morph) ==
  [text |-> text, is_punct |-> punct, is_space |-> FALSE, pos_ |-> pos,
   lemma_ |-> lemma, dep_ |-> dep, head_text |-> head_text, morph |-> morph]

TokenPool ==
  { Token(<<"s","i">>, FALSE, "AUX", <<"s","i">>, "aux", <<"s","i">>,
          [Tense |-> {"Pres"}]),
    Token(<<"s","i">>, FALSE, "VERB", <<"s","e","r">>, "ROOT", <<"h","a">>,
          [Tense |-> {"Past"}, VerbForm |-> {"Part"}]),
    Token(<<"t","u">>, FALSE, "PRON", <<"t","u">>, "nsubj", <<"s","i">>,
          EmptyDict),
    Token(<<".">>, TRUE, "PUNCT", <<".">>, "punct", <<"s","i">>, EmptyDict) }

\* The longest Tagged Unit the tagger returns in the model.
MaxDoc == 2

RECURSIVE SeqsUpTo(_, _)
SeqsUpTo(S, n) ==
  IF n = 0 THEN {<<>>}
  ELSE LET shorter == SeqsUpTo(S, n - 1)
       IN  shorter \cup {Append(q, x) : q \in {r \in shorter : Len(r) = n - 1}, x \in S}

\* nlp(text): the tagger is opaque, so any sequence of up to MaxDoc of the
\* model's tokens may come back.
Docs(tokens) == SeqsUpTo(tokens, MaxDoc)

\* fill_word_annotation without line 113: head_text is not written.
fill_word_annotation_NoHead(w_obj, spacy_token) ==
  Update(w_obj, [pos |-> spacy_token.pos_, lemma |-> spacy_token.lemma_,
                 dep |-> spacy_token.dep_, morph |-> spacy_token.morph])

\* fill_word_annotation(w_obj, spacy_token)
fill_word_annotation(w_obj, spacy_token) ==
  Update(w_obj, [pos |-> spacy_token.pos_, lemma |-> spacy_token.lemma_,
                 dep |-> spacy_token.dep_, head_text |-> spacy_token.head_text,
                 morph |-> spacy_token.morph])

\* annotate_fallback whose empty annotation has no morph.
annotate_fallback_NoMorph(word_text, doc) ==
  IF Len(doc) > 0
  THEN [pos |-> doc[1].pos_, lemma |-> doc[1].lemma_, dep |-> doc[1].dep_,
        head_text |-> doc[1].head_text, morph |-> doc[1].morph]
  ELSE [pos |-> "", lemma |-> word_text, dep |-> "", head_text |-> <<>>]

\* annotate_fallback(word_text), doc being what nlp(word_text) returned.
annotate_fallback(word_text, doc) ==
  IF Len(doc) > 0
  THEN [pos |-> doc[1].pos_, lemma |-> doc[1].lemma_, dep |-> doc[1].dep_,
        head_text |-> doc[1].head_text, morph |-> doc[1].morph]
  ELSE [pos |-> "", lemma |-> word_text, dep |-> "", head_text |-> <<>>,
        morph |-> EmptyDict]

\* --------------------------------------------------- past-tense classifier

\* A JSON value that is no object (null, a list, a string) is the record
\* [json |-> kind]; None, the value of d.get(k) for a missing key, is one.
None == [json |-> "null"]

IsDict(v) == ~Has(v, "json")

PRESENT_FORMS ==
  { <<"h","e">>, <<"h","a","s">>, <<"h","a">>, <<"h","e","m","o","s">>,
    <<"h","a","b","é","i","s">>, <<"h","a","n">>, <<"h","a","b","é","s">>,
    <<"h","a","b","í","s">>, <<"h","a","b","e","m","o","s">> }

IMPERFECT_FORMS ==
  { <<"h","a","b","í","a">>, <<"h","a","b","í","a","s">>,
    <<"h","a","b","í","a","m","o","s">>, <<"h","a","b","í","a","i","s">>,
    <<"h","a","b","í","a","n">> }

FUTURE_FORMS ==
  { <<"h","a","b","r","é">>, <<"h","a","b","r","á","s">>, <<"h","a","b","r","á">>,
    <<"h","a","b","r","e","m","o","s">>, <<"h","a","b","r","é","i","s">>,
    <<"h","a","b","r","á","n">> }

COND_FORMS ==
  { <<"h","a","b","r","í","a">>, <<"h","a","b","r","í","a","s">>,
    <<"h","a","b","r","í","a","m","o","s">>, <<"h","a","b","r","í","a","i","s">>,
    <<"h","a","b","r","í","a","n">> }

\* A call either returns a value or raises; nothing in the script catches
\* an exception, so a raise ends the run.
Returns(v) == [ok |-> TRUE, val |-> v]

Raises(exception) == [ok |-> FALSE, val |-> exception]

\* Line 170 run for every word: the label is the only entry of a new morph.
set_past_tense_type_FreshMorph(w_obj, label) ==
  Put(w_obj, "morph", Put(EmptyDict, "Past_Tense_Type", label))

set_past_tense_type(w_obj, label) ==
  LET w == IF IsDict(Get(w_obj, "morph", None)) THEN w_obj
           ELSE Put(w_obj, "morph", EmptyDict)
  IN  Put(w, "morph", Put(w.morph, "Past_Tense_Type", label))

\* The sibling loop without the test for "Pres" of line 185: an auxiliary of
\* any tense counts.
RECURSIVE DetectFrom_AnyTense(_, _, _, _)
DetectFrom_AnyTense(k, seg_words, part_text_lower, j) ==
  IF j > Len(seg_words) THEN Returns(FALSE)
  ELSE IF j = k THEN DetectFrom_AnyTense(k, seg_words, part_text_lower, j + 1)
  ELSE IF Get(seg_words[j], "pos", "") # "AUX"
       THEN DetectFrom_AnyTense(k, seg_words, part_text_lower, j + 1)
  ELSE LET morph == Get(seg_words[j], "morph", EmptyDict)
       IN  IF ~IsDict(morph) THEN Raises("AttributeError")
           ELSE IF Lower(Get(seg_words[j], "head_text", <<>>)) = part_text_lower
                THEN Returns(TRUE)
                ELSE DetectFrom_AnyTense(k, seg_words, part_text_lower, j + 1)

\* The sibling loop taking an auxiliary that carries a Past_Tense_Type, a
\* label written earlier in the pass, for a present one.
RECURSIVE DetectFrom_CountsLabelled(_, _, _, _)
DetectFrom_CountsLabelled(k, seg_words, part_text_lower, j) ==
  IF j > Len(seg_words) THEN Returns(FALSE)
  ELSE IF j = k THEN DetectFrom_CountsLabelled(k, seg_words, part_text_lower, j + 1)
  ELSE IF Get(seg_words[j], "pos", "") # "AUX"
       THEN DetectFrom_CountsLabelled(k, seg_words, part_text_lower, j + 1)
  ELSE LET morph == Get(seg_words[j], "morph", EmptyDict)
       IN  IF ~IsDict(morph) THEN Raises("AttributeError")
           ELSE IF /\ \/ "Pres" \in Get(morph, "Tense", {})
                      \/ Has(morph, "Past_Tense_Type")
                   /\ Lower(Get(seg_words[j], "head_text", <<>>)) = part_text_lower
                THEN Returns(TRUE)
                ELSE DetectFrom_CountsLabelled(k, seg_words, part_text_lower, j + 1)

\* The loop "for sibling in seg_words" from the sibling at j on, part_word
\* being seg_words[k]: whether the auxiliary was found.  morph.get raises on
\* a morph that is no dict.
RECURSIVE DetectFrom(_, _, _, _)
DetectFrom(k, seg_words, part_text_lower, j) ==
  IF j > Len(seg_words) THEN Returns(FALSE)
  ELSE IF j = k THEN DetectFrom(k, seg_words, part_text_lower, j + 1)
  ELSE IF Get(seg_words[j], "pos", "") # "AUX"
       THEN DetectFrom(k, seg_words, part_text_lower, j + 1)
  ELSE LET morph == Get(seg_words[j], "morph", EmptyDict)
       IN  IF ~IsDict(morph) THEN Raises("AttributeError")
           ELSE IF /\ "Pres" \in Get(morph, "Tense", {})
                   /\ Lower(Get(seg_words[j], "head_text", <<>>)) = part_text_lower
                THEN Returns(TRUE)
                ELSE DetectFrom(k, seg_words, part_text_lower, j + 1)

\* detect_compound_any_fallback(part_word, seg_words), part_word being
\* seg_words[k]; part_word["text"] raises on a word without text.
detect_compound_any_fallback(k, seg_words) ==
  IF ~Has(seg_words[k], "text") THEN Raises("KeyError")
  ELSE DetectFrom(k, seg_words, Lower(seg_words[k].text), 1)

\* classify_past_tense_form asking for the participle before the finite form
\* (lines 203-205 after lines 207-221).
classify_past_tense_form_PartFirst(k, seg_words) ==
  LET w_obj == seg_words[k]
      morph == Get(w_obj, "morph", EmptyDict)
  IN  IF ~IsDict(morph) THEN Returns(w_obj)
      ELSE LET tense_vals    == Get(morph, "Tense", {})
               verbform_vals == Get(morph, "VerbForm", {})
               aux_raw       == Lower(Get(w_obj, "head_text", <<>>))
               found         == detect_compound_any_fallback(k, seg_words)
           IN  IF "Past" \notin tense_vals THEN Returns(w_obj)
               ELSE IF "Part" \in verbform_vals
                    THEN IF aux_raw \in PRESENT_FORMS
                         THEN Returns(set_past_tense_type(w_obj, "PerfectoCompuesto"))
                         ELSE IF aux_raw \in IMPERFECT_FORMS
                         THEN Returns(set_past_tense_type(w_obj, "Pluscuamperfecto"))
                         ELSE IF aux_raw \in FUTURE_FORMS
                         THEN Returns(set_past_tense_type(w_obj, "FuturoPerfecto"))
                         ELSE IF aux_raw \in COND_FORMS
                         THEN Returns(set_past_tense_type(w_obj, "CondicionalPerfecto"))
                         ELSE IF ~found.ok THEN found
                         ELSE IF found.val
                         THEN Returns(set_past_tense_type(w_obj, "PerfectoCompuesto"))
                         ELSE Returns(set_past_tense_type(w_obj, "OtroCompuesto"))
               ELSE IF "Fin" \in verbform_vals
                    THEN Returns(set_past_tense_type(w_obj, "PerfectoSimple"))
               ELSE Returns(set_past_tense_type(w_obj, "PastOther"))

\* classify_past_tense_form(w_obj, seg_words), w_obj being seg_words[k]: the
\* word as the call leaves it.
classify_past_tense_form(k, seg_words) ==
  LET w_obj == seg_words[k]
      morph == Get(w_obj, "morph", EmptyDict)
  IN  IF ~IsDict(morph) THEN Returns(w_obj)
      ELSE LET tense_vals    == Get(morph, "Tense", {})
               verbform_vals == Get(morph, "VerbForm", {})
               aux_raw       == Lower(Get(w_obj, "head_text", <<>>))
               found         == detect_compound_any_fallback(k, seg_words)
           IN  IF "Past" \notin tense_vals THEN Returns(w_obj)
               ELSE IF "Fin" \in verbform_vals
                    THEN Returns(set_past_tense_type(w_obj, "PerfectoSimple"))
               ELSE IF "Part" \in verbform_vals
                    THEN IF aux_raw \in PRESENT_FORMS
                         THEN Returns(set_past_tense_type(w_obj, "PerfectoCompuesto"))
                         ELSE IF aux_raw \in IMPERFECT_FORMS
                         THEN Returns(set_past_tense_type(w_obj, "Pluscuamperfecto"))
                         ELSE IF aux_raw \in FUTURE_FORMS
                         THEN Returns(set_past_tense_type(w_obj, "FuturoPerfecto"))
                         ELSE IF aux_raw \in COND_FORMS
                         THEN Returns(set_past_tense_type(w_obj, "CondicionalPerfecto"))
                         ELSE IF ~found.ok THEN found
                         ELSE IF found.val
                         THEN Returns(set_past_tense_type(w_obj, "PerfectoCompuesto"))
                         ELSE Returns(set_past_tense_type(w_obj, "OtroCompuesto"))
               ELSE Returns(set_past_tense_type(w_obj, "PastOther"))

\* The inner loop of post_process_compound_tenses from the word at k on; the
\* words are changed in place, so a later word sees the earlier labels.
RECURSIVE TensesFrom(_, _)
TensesFrom(seg_words, k) ==
  IF k > Len(seg_words) THEN Returns(seg_words)
  ELSE LET morph == Get(seg_words[k], "morph", EmptyDict)
           w     == classify_past_tense_form(k, seg_words)
       IN  IF IsDict(morph) /\ "Past" \in Get(morph, "Tense", {})
           THEN IF w.ok THEN TensesFrom([seg_words EXCEPT ![k] = w.val], k + 1)
                ELSE w
           ELSE TensesFrom(seg_words, k + 1)

\* seg with its words replaced, when it has any (a segment without the key
\* "words" has none to change).
WithWords(seg, words) == IF Has(seg, "words") THEN Put(seg, "words", words) ELSE seg

\* The loop over the segments, each segment's words being the result of the
\* inner loop: the first segment that raises ends the pass.
PerSegment(data, results) ==
  LET failed == {s \in 1..Len(results) : ~results[s].ok}
  IN  IF failed = {}
      THEN Returns(Put(data, "segments",
                       [s \in 1..Len(results) |->
                          WithWords(data.segments[s], results[s].val)]))
      ELSE results[CHOOSE s \in failed : \A t \in failed : s <= t]

post_process_compound_tenses(data) ==
  PerSegment(data, [s \in 1..Len(data.segments) |->
                      TensesFrom(Get(data.segments[s], "words", <<>>), 1)])

\* ------------------------------------------------- analytic-future detector

set_future_type(w_obj, label) ==
  LET w == IF IsDict(Get(w_obj, "morph", None)) THEN w_obj
           ELSE Put(w_obj, "morph", EmptyDict)
  IN  Put(w, "morph", Put(w.morph, "Future_Type", label))

\* A morph that is no dict: null, or a list (the empty one).
EmptyList == [json |-> "list"]

\* The triple's label with line 281 an "else": every tense but the present
\* gives analyticalFuture_past.
FutureLabel_AnyOtherTense(words, i) ==
  LET morph1 == Get(words[i], "morph", EmptyDict)
      morph3 == Get(words[i + 2], "morph", EmptyDict)
  IN  IF Get(words[i], "pos", "") # "AUX" THEN Returns("")
      ELSE IF ~IsDict(morph1)
           THEN IF morph1.json = "null" THEN Raises("TypeError") ELSE Returns("")
      ELSE IF ~Has(morph1, "Tense") THEN Returns("")
      ELSE IF Lower(Get(words[i + 1], "text", <<>>)) # <<"a">> THEN Returns("")
      ELSE IF Get(words[i + 1], "pos", "") # "ADP" THEN Returns("")
      ELSE IF Get(words[i + 2], "pos", "") # "VERB" THEN Returns("")
      ELSE IF ~IsDict(morph3) THEN Raises("AttributeError")
      ELSE IF "Inf" \notin Get(morph3, "VerbForm", {}) THEN Returns("")
      ELSE IF "Pres" \in morph1["Tense"] THEN Returns("analyticalFuture")
      ELSE Returns("analyticalFuture_past")

\* The label the triple starting at i gives its third word, "" for none.  The
\* condition of line 269-276 is evaluated left to right and stops at the first
\* conjunct that is false: "Tense" in None raises, "Tense" in [] is false, and
\* morph3.get raises on a morph3 that is no dict.
FutureLabel(words, i) ==
  LET w1 == words[i]
      w2 == words[i + 1]
      w3 == words[i + 2]
      morph1 == Get(w1, "morph", EmptyDict)
      morph3 == Get(w3, "morph", EmptyDict)
  IN  IF Get(w1, "pos", "") # "AUX" THEN Returns("")
      ELSE IF ~IsDict(morph1)
           THEN IF morph1.json = "null" THEN Raises("TypeError") ELSE Returns("")
      ELSE IF ~Has(morph1, "Tense") THEN Returns("")
      ELSE IF Lower(Get(w2, "text", <<>>)) # <<"a">> THEN Returns("")
      ELSE IF Get(w2, "pos", "") # "ADP" THEN Returns("")
      ELSE IF Get(w3, "pos", "") # "VERB" THEN Returns("")
      ELSE IF ~IsDict(morph3) THEN Raises("AttributeError")
      ELSE IF "Inf" \notin Get(morph3, "VerbForm", {}) THEN Returns("")
      ELSE IF "Pres" \in morph1["Tense"] THEN Returns("analyticalFuture")
      ELSE IF "Imp" \in morph1["Tense"] THEN Returns("analyticalFuture_past")
      ELSE Returns("")

\* The loop over the triples left by a break after the first label.
RECURSIVE FuturesFrom_StopsAtMatch(_, _)
FuturesFrom_StopsAtMatch(words, i) ==
  IF i + 2 > Len(words) THEN Returns(words)
  ELSE LET label == FutureLabel(words, i)
           w3    == IF Has(words[i + 2], "morph") THEN words[i + 2]
                    ELSE Put(words[i + 2], "morph", EmptyDict)
       IN  IF ~label.ok THEN label
           ELSE IF label.val # ""
           THEN Returns([words EXCEPT ![i + 2] =
                           Put(w3, "morph", Put(w3.morph, "Future_Type", label.val))])
           ELSE FuturesFrom_StopsAtMatch(words, i + 1)

\* The loop "for i in range(len(words) - 2)" from i on, the words changed in
\* place: w3.setdefault("morph", {}); w3["morph"]["Future_Type"] = label.
RECURSIVE FuturesFrom(_, _)
FuturesFrom(words, i) ==
  IF i + 2 > Len(words) THEN Returns(words)
  ELSE LET label == FutureLabel(words, i)
           w3    == IF Has(words[i + 2], "morph") THEN words[i + 2]
                    ELSE Put(words[i + 2], "morph", EmptyDict)
       IN  IF ~label.ok THEN label
           ELSE IF label.val # ""
           THEN FuturesFrom([words EXCEPT ![i + 2] =
                               Put(w3, "morph", Put(w3.morph, "Future_Type", label.val))],
                            i + 1)
           ELSE FuturesFrom(words, i + 1)

post_process_compound_futures(data) ==
  PerSegment(data, [s \in 1..Len(data.segments) |->
                      FuturesFrom(Get(data.segments[s], "words", <<>>), 1)])

\* Line 353 without line 354: the futures are not looked for.
PostProcess_TensesOnly(data) == post_process_compound_tenses(data)

\* Lines 353-354: the two passes one after the other.
PostProcess(data) ==
  LET tenses == post_process_compound_tenses(data)
  IN  IF tenses.ok THEN post_process_compound_futures(tenses.val) ELSE tenses

\* ------------------------------------------------------------- transcripts

ANNOTATION_KEYS == {"pos", "lemma", "dep", "head_text", "morph"}

Word(text) == [text |-> text]

Foreign(text) == [text |-> text, foreign |-> "1"]

Segment(words) == [speaker |-> "spk1", words |-> words]

Transcript(segments) == [segments |-> segments]

\* An annotation left by an earlier annotation of the file.
OldAnnotation ==
  [pos |-> "OLD", lemma |-> <<"o","l","d">>, dep |-> "old", head_text |-> <<"o","l","d">>,
   morph |-> [Past_Tense_Type |-> "OldPast", Future_Type |-> "OldFuture"]]

\* Transcripts no run has annotated: two sentences that share a word; the
\* three special cases before a plain word; foreign words and a segment
\* without words; a segment without the key "words".
TwoSentences ==
  Transcript(<< Segment(<< Word(<<"S","i",".">>), Word(<<"s","i">>) >>) >>)

SpecialCases ==
  Transcript(<< Segment(<< Word(<<"t","u","-">>), Word(<<"E","e","h">>),
                           Word(<<"s","i">>) >>) >>)

ForeignOnly ==
  Transcript(<< Segment(<< Foreign(<<"t","u","-">>) >>), Segment(<<>>),
                Segment(<< Foreign(<<"E","e","h">>) >>) >>)

NoWords == Transcript(<< [speaker |-> "spk1"] >>)

\* t as an earlier annotation left it, every word annotated.
AnnotatedAll(t) ==
  Put(t, "segments",
      [s \in 1..Len(t.segments) |->
         WithWords(t.segments[s],
                   [k \in 1..Len(Get(t.segments[s], "words", <<>>)) |->
                      Update(t.segments[s].words[k], OldAnnotation)])])

\* t with nothing but a morph field on the first word of its last segment.
WithStrayMorph(t) ==
  Put(t, "segments",
      [s \in 1..Len(t.segments) |->
         WithWords(t.segments[s],
                   [k \in 1..Len(Get(t.segments[s], "words", <<>>)) |->
                      IF s = Len(t.segments) /\ k = 1
                      THEN Put(t.segments[s].words[k], "morph", OldAnnotation.morph)
                      ELSE t.segments[s].words[k]])])

\* The transcripts the recordings' files hold before the first run.
TranscriptPool ==
  { TwoSentences, SpecialCases, ForeignOnly, NoWords,
    AnnotatedAll(SpecialCases), AnnotatedAll(ForeignOnly), WithStrayMorph(TwoSentences) }

\* A file's text: the record it encodes and how it is laid out.  json.load
\* reads the record; json.dump(..., ensure_ascii=False, indent=2) writes it
\* in the one layout of dump.
JsonLoad(file) == file.data

JsonDump(data) == [layout |-> "dump", data |-> data]

\* The most *.json files GRABACIONES_DIR holds.
MaxFiles == 2

\* How often the script is run on the directory.
MaxRuns == 2

\* -------------------------------------------------------------------- state

VARIABLES
  nlp,                 \* the tokens the loaded spaCy model answers with
  disk,                \* the *.json files of GRABACIONES_DIR, in sorted order
  pc,                  \* where the script stands
  run,                 \* the number of the current run of the script
  overwrite_existing,  \* main: the answer to the overwrite question
  filtered_files,      \* main: the files to annotate (positions in disk)
  progress,            \* main: progress_data
  fidx,                \* main: position of the loop over filtered_files
  data,                \* annotate_file: the loaded record
  sidx,                \* annotate_file: position of the loop over segs
  sl,                  \* annotate_file: the sentences of the current segment
  i,                   \* annotate_file: the sentence index, from 0 as in the code
  ctx,                 \* annotate_file: the context window (word positions)
  text,                \* annotate_file: the string handed to nlp, as its words
  doc,                 \* annotate_file: the Tagged Unit nlp returned
  tok,                 \* annotate_file: the cursor into doc, from 0
  widx,                \* annotate_file: position of the loop over sent
  writes,              \* history: the files written in this run, in order
  prior,               \* history: the files an earlier run has written
  disk0,               \* history: the files as the current run found them
  existing_ids,        \* run_transcription: the token IDs given out in this run
  tokens,              \* transcription.db: the rows of the table tokens
  annotations,         \* annotation_data.db: the rows of the table annotations
  jf,                  \* run_transcription: position of the loop over json_files
  seg_i,               \* run_transcription: position of the loop over segments
  word_i,              \* run_transcription: position of the loop over wlist
  json_modified,       \* run_transcription: the loaded record got a token_id
  call,                \* generate_unique_token_id: its arguments
  hash_len,            \* generate_unique_token_id: the length of the prefix
  token_id             \* generate_unique_token_id: the candidate ID

vars == <<nlp, disk, pc, run, overwrite_existing, filtered_files, progress, fidx, data,
          sidx, sl, i, ctx, text, doc, tok, widx, writes, prior, disk0,
          existing_ids, tokens, annotations, jf, seg_i, word_i, json_modified,
          call, hash_len, token_id>>

\* What database_creation.py works with; annotation_grabaciones.py has none
\* of it.
dbVars == <<existing_ids, tokens, annotations, jf, seg_i, word_i, json_modified,
            call, hash_len, token_id>>

\* No call of generate_unique_token_id is under way.
NoCall == [country_code |-> <<>>, date |-> <<>>, st |-> 0, et |-> 0, text |-> <<>>]

\* Before run_transcription has run: no table, no ID, no file loaded.
DbFresh ==
  /\ existing_ids = {}
  /\ tokens = <<>>
  /\ annotations = <<>>
  /\ jf = 1
  /\ seg_i = 1
  /\ word_i = 1
  /\ json_modified = FALSE
  /\ call = NoCall
  /\ hash_len = 0
  /\ token_id = <<>>

mainVars == <<overwrite_existing, filtered_files>>

sentVars == <<sl, i, ctx, text, doc, tok, widx>>

histVars == <<writes, prior, disk0>>

NoData == Transcript(<<>>)

\* What a run starts from: nothing chosen, loaded or counted yet.
Fresh ==
  /\ overwrite_existing = FALSE
  /\ filtered_files = <<>>
  /\ progress = [annotated |-> 0, total |-> 0, last_step |-> 0]
  /\ fidx = 1
  /\ data = NoData
  /\ sidx = 1
  /\ sl = <<>>
  /\ i = 0
  /\ ctx = <<>>
  /\ text = <<>>
  /\ doc = <<>>
  /\ tok = 0
  /\ widx = 1

\* The script is started on a directory of at most maxFiles files that no run
\* of it has written yet, with a model that answers with the given tokens.
InitWith(model_tokens, transcripts, maxFiles) ==
  /\ DbFresh
  /\ nlp = model_tokens
  /\ \E n \in 0..maxFiles :
       disk \in [1..n -> {[layout |-> "orig", data |-> t] : t \in transcripts}]
  /\ pc = "prompt"
  /\ run = 1
  /\ Fresh
  /\ writes = <<>>
  /\ prior = {}
  /\ disk0 = disk

Init == InitWith(TokenPool, TranscriptPool, MaxFiles)

\* The process ends, and with it what annotate_file and the progress
\* report held in memory; the answers main got stay on record.
Exit ==
  /\ progress' = [annotated |-> 0, total |-> 0, last_step |-> 0]
  /\ fidx' = 1
  /\ data' = NoData
  /\ sidx' = 1
  /\ sl' = <<>>
  /\ i' = 0
  /\ ctx' = <<>>
  /\ text' = <<>>
  /\ doc' = <<>>
  /\ tok' = 0
  /\ widx' = 1

\* --------------------------------------------------------------------- main

\* already_annotated looking for "pos" only.
already_annotated_PosOnly(segments) ==
  \E s \in 1..Len(segments) :
    \E k \in 1..Len(Get(segments[s], "words", <<>>)) :
      Has(segments[s].words[k], "pos")

already_annotated(segments) ==
  \E s \in 1..Len(segments) :
    \E k \in 1..Len(Get(segments[s], "words", <<>>)) :
      Has(segments[s].words[k], "pos") \/ Has(segments[s].words[k], "morph")

RECURSIVE SumWords(_)
SumWords(segments) ==
  IF segments = <<>> THEN 0
  ELSE Len(Get(Head(segments), "words", <<>>)) + SumWords(Tail(segments))

\* The counting loop of main over files_to_process[k..]: the files kept and
\* the words counted so far.
RECURSIVE FilterFrom(_, _, _, _, _)
FilterFrom(files, files_to_process, overwrite, k, acc) ==
  IF k > Len(files_to_process) THEN acc
  ELSE LET segments == Get(JsonLoad(files[files_to_process[k]]), "segments", <<>>)
       IN  IF ~overwrite /\ already_annotated(segments)
           THEN FilterFrom(files, files_to_process, overwrite, k + 1, acc)
           ELSE FilterFrom(files, files_to_process, overwrite, k + 1,
                           [filtered |-> Append(acc.filtered, files_to_process[k]),
                            total |-> acc.total + SumWords(segments)])

\* The counting loop without the skip of line 395-397.
RECURSIVE FilterFiles_NoSkip(_, _, _)
FilterFiles_NoSkip(files, files_to_process, overwrite) ==
  IF files_to_process = <<>> THEN [filtered |-> <<>>, total |-> 0]
  ELSE LET rest == FilterFiles_NoSkip(files, Tail(files_to_process), overwrite)
       IN  [filtered |-> <<Head(files_to_process)>> \o rest.filtered,
            total |-> rest.total
                      + SumWords(Get(JsonLoad(files[Head(files_to_process)]),
                                     "segments", <<>>))]

FilterFiles(files, files_to_process, overwrite) ==
  FilterFrom(files, files_to_process, overwrite, 1, [filtered |-> <<>>, total |-> 0])

all_files == [f \in 1..Len(disk) |-> f]

\* all_files[:n]
FirstN(files, n) == SubSeq(files, 1, IF n < Len(files) THEN n ELSE Len(files))

\* main from the overwrite question to the processing loop, the files to
\* process chosen.
MainFilter(files_to_process, overwrite) ==
  LET kept == FilterFiles(disk, files_to_process, overwrite)
  IN  /\ overwrite_existing' = overwrite
      /\ filtered_files' = kept.filtered
      /\ IF kept.filtered = <<>>
         THEN pc' = "done" /\ UNCHANGED progress
         ELSE /\ pc' = "loop"
              /\ progress' = [annotated |-> 0, total |-> kept.total, last_step |-> 0]
      /\ UNCHANGED fidx

\* main up to its processing loop: no JSON file, the choice "all", a number,
\* or anything else.
Main ==
  /\ UNCHANGED dbVars
  /\ pc = "prompt"
  /\ UNCHANGED <<nlp, disk, run, data, sidx, sentVars, histVars>>
  /\ \/ /\ Len(disk) = 0
        /\ pc' = "done"
        /\ UNCHANGED <<mainVars, progress, fidx>>
     \/ /\ Len(disk) > 0
        /\ \E overwrite \in BOOLEAN : MainFilter(all_files, overwrite)
     \/ /\ Len(disk) > 0
        /\ \E n \in 0..MaxFiles, overwrite \in BOOLEAN :
             MainFilter(FirstN(all_files, n), overwrite)
     \/ /\ Len(disk) > 0
        /\ pc' = "done"
        /\ UNCHANGED <<mainVars, progress, fidx>>

\* The loop over filtered_files has no file left.
MainEnd ==
  /\ UNCHANGED dbVars
  /\ pc = "loop"
  /\ fidx > Len(filtered_files)
  /\ pc' = "done"
  /\ Exit
  /\ UNCHANGED <<nlp, disk, run, mainVars, histVars>>

\* The script is started again on the directory as the last run left it.
Rerun ==
  /\ UNCHANGED dbVars
  /\ pc \in {"done", "crashed"}
  /\ run < MaxRuns
  /\ run' = run + 1
  /\ pc' = "prompt"
  /\ overwrite_existing' = FALSE
  /\ filtered_files' = <<>>
  /\ prior' = prior \cup {writes[k] : k \in 1..Len(writes)}
  /\ writes' = <<>>
  /\ disk0' = disk
  /\ UNCHANGED <<nlp, disk, progress, fidx, data, sidx, sentVars>>

\* ------------------------------------------------------------ annotate_file

\* show_progress reports every 2500 words.
ProgressStep == 2500

show_progress(progress_data) ==
  LET current_step == progress_data.annotated \div ProgressStep
  IN  IF current_step > progress_data.last_step
         \/ progress_data.annotated = progress_data.total
      THEN [progress_data EXCEPT !.last_step = current_step]
      ELSE progress_data

\* progress["annotated"] += 1
Counted(progress_data) == [progress_data EXCEPT !.annotated = @ + 1]

\* The clearing loop with "morph" missing from the keys of line 297.
ClearAnnotations_KeepsMorph(d) ==
  Put(d, "segments",
      [s \in 1..Len(Get(d, "segments", <<>>)) |->
         WithWords(d.segments[s],
                   [k \in 1..Len(Get(d.segments[s], "words", <<>>)) |->
                      [f \in DOMAIN d.segments[s].words[k] \ (ANNOTATION_KEYS \ {"morph"}) |->
                         d.segments[s].words[k][f]]])])

\* "Alte Annotationen loeschen": w.pop(k, None) for the five keys, every word.
ClearAnnotations(d) ==
  Put(d, "segments",
      [s \in 1..Len(Get(d, "segments", <<>>)) |->
         WithWords(d.segments[s],
                   [k \in 1..Len(Get(d.segments[s], "words", <<>>)) |->
                      [f \in DOMAIN d.segments[s].words[k] \ ANNOTATION_KEYS |->
                         d.segments[s].words[k][f]]])])

\* The annotated word is put behind the segment's words, not in the place
\* of the word it annotates.
SetWord_Appended(d, s, k, w) ==
  Put(d, "segments",
      [d.segments EXCEPT ![s] = Put(@, "words", Append(d.segments[s].words, w))])

\* d with the word k of segment s replaced.
SetWord(d, s, k, w) ==
  Put(d, "segments",
      [d.segments EXCEPT ![s] = Put(@, "words", [d.segments[s].words EXCEPT ![k] = w])])

\* annotate_file from json.load to the loop over the segments.
BeginFile ==
  /\ UNCHANGED dbVars
  /\ pc = "loop"
  /\ fidx <= Len(filtered_files)
  /\ data' = ClearAnnotations(JsonLoad(disk[filtered_files[fidx]]))
  /\ sidx' = 1
  /\ pc' = "seg"
  /\ UNCHANGED <<nlp, disk, run, mainVars, progress, fidx, sentVars, histVars>>

\* The head of "for s in segs": no segment left, a segment without words, or
\* a segment to split into sentences.
NextSegment ==
  /\ UNCHANGED dbVars
  /\ pc = "seg"
  /\ UNCHANGED <<nlp, disk, run, mainVars, progress, fidx, data, ctx, text, doc, tok, widx,
                 histVars>>
  /\ \/ /\ sidx > Len(data.segments)
        /\ pc' = "post"
        /\ sl' = <<>>
        /\ i' = 0
        /\ UNCHANGED sidx
     \/ /\ sidx <= Len(data.segments)
        /\ Get(data.segments[sidx], "words", <<>>) = <<>>
        /\ sidx' = sidx + 1
        /\ UNCHANGED <<pc, sl, i>>
     \/ /\ sidx <= Len(data.segments)
        /\ Get(data.segments[sidx], "words", <<>>) # <<>>
        /\ sl' = split_into_sentences(data.segments[sidx].words)
        /\ i' = 0
        /\ pc' = "sent"
        /\ UNCHANGED sidx

\* ctx = (sl[i-1] if i>0 else []) + sent + (sl[i+1] if i<len(sl)-1 else [])
\* Line 306 with the next sentence taken whenever i < len(sl) - 2: the last
\* but one sentence loses its right context.
ContextWindow_ShortRight(sentences, idx) ==
  (IF idx > 0 THEN sentences[idx] ELSE <<>>)
    \o sentences[idx + 1]
    \o (IF idx < Len(sentences) - 2 THEN sentences[idx + 2] ELSE <<>>)

ContextWindow(sentences, idx) ==
  (IF idx > 0 THEN sentences[idx] ELSE <<>>)
    \o sentences[idx + 1]
    \o (IF idx < Len(sentences) - 1 THEN sentences[idx + 2] ELSE <<>>)

\* sep.join(parts)
RECURSIVE Join(_, _)
Join(parts, sep) ==
  IF parts = <<>> THEN <<>>
  ELSE IF Len(parts) = 1 THEN parts[1]
  ELSE parts[1] \o sep \o Join(Tail(parts), sep)

\* " ".join(w.get("text", "").lower() for w in ctx)
TaggerString(words, window) ==
  Join([k \in 1..Len(window) |-> Lower(Get(words[window[k]], "text", <<>>))], <<" ">>)

\* The head of "for i, sent in enumerate(sl)": no sentence left, or the
\* context window is built and tagged, nlp answering with one of docs.
TagSentenceWith(docs) ==
  /\ UNCHANGED dbVars
  /\ pc = "sent"
  /\ UNCHANGED <<nlp, disk, run, mainVars, progress, fidx, data, sl, histVars>>
  /\ \/ /\ i >= Len(sl)
        /\ sidx' = sidx + 1
        /\ pc' = "seg"
        /\ ctx' = <<>> /\ text' = <<>> /\ doc' = <<>> /\ tok' = 0 /\ widx' = 1
        /\ UNCHANGED i
     \/ /\ i < Len(sl)
        /\ ctx' = ContextWindow(sl, i)
        /\ text' = TaggerString(data.segments[sidx].words, ContextWindow(sl, i))
        /\ doc' \in docs
        /\ tok' = 0
        /\ widx' = 1
        /\ pc' = "word"
        /\ UNCHANGED <<sidx, i>>

\* The same with nlp answering as the model of the run does.
TagSentence == TagSentenceWith(Docs(nlp))

\* while tok<len(doc) and (doc[tok].is_punct or doc[tok].is_space): tok += 1
RECURSIVE SkipPunct(_, _)
SkipPunct(d, t) ==
  IF t < Len(d) /\ (d[t + 1].is_punct \/ d[t + 1].is_space)
  THEN SkipPunct(d, t + 1)
  ELSE t

Matches(token, txt) == strip_punct(Lower(token.text)) = strip_punct(Lower(txt))

\* The forward search taking the last matching token instead of the first.
ForwardSearch_Last(d, td, txt) ==
  LET hits == {j \in (td + 1)..Len(d) :
                 ~(d[j].is_punct \/ d[j].is_space) /\ Matches(d[j], txt)}
  IN  IF hits = {} THEN [found |-> FALSE, td |-> IF td < Len(d) THEN Len(d) ELSE td]
      ELSE [found |-> TRUE, td |-> CHOOSE j \in hits : \A m \in hits : m <= j]

\* The forward search leaving td where it started when it finds no token.
ForwardSearch_KeepsCursor(d, td, txt) ==
  LET hits == {j \in (td + 1)..Len(d) :
                 ~(d[j].is_punct \/ d[j].is_space) /\ Matches(d[j], txt)}
  IN  IF hits = {} THEN [found |-> FALSE, td |-> td]
      ELSE [found |-> TRUE, td |-> CHOOSE j \in hits : \A m \in hits : j <= m]

\* The forward search "while td < len(doc)": whether a token was found and
\* the value td ends with.
RECURSIVE ForwardSearch(_, _, _)
ForwardSearch(d, td, txt) ==
  IF td >= Len(d) THEN [found |-> FALSE, td |-> td]
  ELSE IF ~(d[td + 1].is_punct \/ d[td + 1].is_space) /\ Matches(d[td + 1], txt)
       THEN [found |-> TRUE, td |-> td + 1]
       ELSE ForwardSearch(d, td + 1, txt)

\* Lines 326-340 with line 331 left out: a direct match leaves the cursor on
\* the token it matched.
Align_DirectKeepsCursor(w, d, t) ==
  LET txt == Get(w, "text", <<>>)
      t1  == SkipPunct(d, t)
  IN  IF t1 < Len(d) /\ Matches(d[t1 + 1], txt)
      THEN [found |-> TRUE, w |-> fill_word_annotation(w, d[t1 + 1]), tok |-> t1]
      ELSE LET r == ForwardSearch(d, t1, txt)
           IN  IF r.found
               THEN [found |-> TRUE, w |-> fill_word_annotation(w, d[r.td]), tok |-> r.td]
               ELSE [found |-> FALSE, w |-> w, tok |-> r.td]

\* Lines 326-340 with the forward search started at the first token of the
\* Tagged Unit instead of the cursor (td = 0 on line 334).
Align_FromStart(w, d, t) ==
  LET txt == Get(w, "text", <<>>)
      t1  == SkipPunct(d, t)
  IN  IF t1 < Len(d) /\ Matches(d[t1 + 1], txt)
      THEN [found |-> TRUE, w |-> fill_word_annotation(w, d[t1 + 1]), tok |-> t1 + 1]
      ELSE LET r == ForwardSearch(d, 0, txt)
           IN  IF r.found
               THEN [found |-> TRUE, w |-> fill_word_annotation(w, d[r.td]), tok |-> r.td]
               ELSE [found |-> FALSE, w |-> w, tok |-> r.td]

\* Lines 326-340 for one word: the word and the cursor as they leave it, and
\* whether a token of the Tagged Unit was found for the word.
Align(w, d, t) ==
  LET txt == Get(w, "text", <<>>)
      t1  == SkipPunct(d, t)
  IN  IF t1 < Len(d) /\ Matches(d[t1 + 1], txt)
      THEN [found |-> TRUE, w |-> fill_word_annotation(w, d[t1 + 1]), tok |-> t1 + 1]
      ELSE LET r == ForwardSearch(d, t1, txt)
           IN  IF r.found
               THEN [found |-> TRUE, w |-> fill_word_annotation(w, d[r.td]), tok |-> r.td]
               ELSE [found |-> FALSE, w |-> w, tok |-> r.td]

\* The foreign check after the two other checks: a foreign-flagged word
\* that ends in "-" or is "eeh" is not skipped.
IsForeign_Last(w) ==
  /\ Has(w, "foreign") /\ w.foreign = "1"
  /\ ~EndsWith(Get(w, "text", <<>>), <<"-">>)
  /\ Lower(Get(w, "text", <<>>)) # <<"e","e","h">>

IsForeign(w) == Has(w, "foreign") /\ w.foreign = "1"

\* Lines 316-320 left out: no word counts as broken off.
IsBrokenOff_Never(w) == FALSE

IsBrokenOff(w) == EndsWith(Get(w, "text", <<>>), <<"-">>)

\* Lines 322-325 left out: "eeh" is aligned as any word.
IsInterjection_Never(w) == FALSE

IsInterjection(w) == Lower(Get(w, "text", <<>>)) = <<"e","e","h">>

IsSpecial(w) == IsForeign(w) \/ IsBrokenOff(w) \/ IsInterjection(w)

\* The word the loop "for w in sent" stands at.
CurWord == data.segments[sidx].words[sl[i + 1][widx]]

\* The body of "for w in sent" for one word, or the end of the sentence.
AlignWord ==
  /\ UNCHANGED dbVars
  /\ pc = "word"
  /\ UNCHANGED <<nlp, disk, run, mainVars, fidx, sidx, sl, ctx, text, doc, histVars>>
  /\ \/ /\ widx > Len(sl[i + 1])
        /\ i' = i + 1
        /\ pc' = "sent"
        /\ UNCHANGED <<data, progress, tok, widx>>
     \/ /\ widx <= Len(sl[i + 1])
        /\ widx' = widx + 1
        /\ UNCHANGED <<pc, i>>
        /\ LET w   == CurWord
               txt == Get(w, "text", <<>>)
               k   == sl[i + 1][widx]
           IN  IF IsForeign(w)
               THEN /\ progress' = Counted(progress)
                    /\ UNCHANGED <<data, tok>>
               ELSE IF IsBrokenOff(w)
               THEN /\ data' = SetWord(data, sidx, k, Put(w, "pos", "self-correction"))
                    /\ progress' = show_progress(Counted(progress))
                    /\ UNCHANGED tok
               ELSE IF IsInterjection(w)
               THEN /\ data' = SetWord(data, sidx, k,
                                       Update(w, [pos |-> "INTJ", lemma |-> txt, dep |-> "",
                                                  head_text |-> <<>>, morph |-> EmptyDict]))
                    /\ progress' = Counted(progress)
                    /\ UNCHANGED tok
               ELSE LET a == Align(w, doc, tok)
                    IN  /\ tok' = a.tok
                        /\ progress' = Counted(progress)
                        /\ IF a.found
                           THEN data' = SetWord(data, sidx, k, a.w)
                           ELSE \E fdoc \in SeqsUpTo(nlp, 1) :
                                  data' = SetWord(data, sidx, k,
                                            Update(w, annotate_fallback(
                                                        strip_punct(Lower(txt)), fdoc)))

\* The failure of nlp caught around the loops and the record dumped as far
\* as it got (a "finally: json.dump") before the run ends.
TaggerRaises_DumpsPartial ==
  /\ UNCHANGED dbVars
  /\ \/ pc = "sent" /\ i < Len(sl)
     \/ /\ pc = "word"
        /\ widx <= Len(sl[i + 1])
        /\ ~IsSpecial(CurWord)
        /\ ~Align(CurWord, doc, tok).found
  /\ pc' = "crashed"
  /\ disk' = [disk EXCEPT ![filtered_files[fidx]] = JsonDump(data)]
  /\ Exit
  /\ UNCHANGED <<nlp, run, mainVars, histVars>>

\* nlp raises, on a context window or on a single word: nothing in the script
\* catches it.
TaggerRaises ==
  /\ UNCHANGED dbVars
  /\ \/ pc = "sent" /\ i < Len(sl)
     \/ /\ pc = "word"
        /\ widx <= Len(sl[i + 1])
        /\ ~IsSpecial(CurWord)
        /\ ~Align(CurWord, doc, tok).found
  /\ pc' = "crashed"
  /\ Exit
  /\ UNCHANGED <<nlp, disk, run, mainVars, histVars>>

\* The end of annotate_file (both post-processing passes, json.dump) and
\* main's file_finished_message, which divides by progress_data["total"].
FinishFile ==
  /\ UNCHANGED dbVars
  /\ pc = "post"
  /\ LET processed == PostProcess(data)
     IN  IF ~processed.ok
         THEN /\ pc' = "crashed"
              /\ Exit
              /\ UNCHANGED <<disk, writes>>
         ELSE /\ disk' = [disk EXCEPT ![filtered_files[fidx]] = JsonDump(processed.val)]
              /\ writes' = Append(writes, filtered_files[fidx])
              /\ IF progress.total = 0
                 THEN pc' = "crashed" /\ Exit
                 ELSE /\ pc' = "loop"
                      /\ fidx' = fidx + 1
                      /\ data' = NoData
                      /\ sidx' = 1
                      /\ UNCHANGED <<progress, sentVars>>
  /\ UNCHANGED <<nlp, run, mainVars, prior, disk0>>

Next ==
  \/ Main
  \/ BeginFile
  \/ NextSegment
  \/ TagSentence
  \/ AlignWord
  \/ TaggerRaises
  \/ FinishFile
  \/ MainEnd

\* One run of the script.
Spec == Init /\ [][Next]_vars

\* The most files of the directory when the script is run again and again.
MaxFilesRerun == 1

NextRerun == Next \/ Rerun

\* MaxRuns runs of the script, one after the other, on the same directory.
SpecRerun == InitWith(TokenPool, TranscriptPool, MaxFilesRerun) /\ [][NextRerun]_vars

\* ---------------------------------------- a run on "Va a ir" and "fue"

\* Tokens of a model that knows the forms of ir: auxiliaries in the present,
\* the imperfect and the past, the preposition and the infinitive.
IrTokens ==
  { Token(<<"v","a">>, FALSE, "AUX", <<"i","r">>, "aux", <<"i","r">>,
          [Tense |-> {"Pres"}]),
    Token(<<"i","b","a">>, FALSE, "AUX", <<"i","r">>, "aux", <<"i","r">>,
          [Tense |-> {"Imp"}]),
    Token(<<"f","u","e">>, FALSE, "AUX", <<"s","e","r">>, "cop", <<"f","u","e">>,
          [Tense |-> {"Past"}]),
    Token(<<"a">>, FALSE, "ADP", <<"a">>, "mark", <<"i","r">>, EmptyDict),
    Token(<<"i","r">>, FALSE, "VERB", <<"i","r">>, "ROOT", <<"i","r">>,
          [VerbForm |-> {"Inf"}]) }

\* A transcript of three segments: "Va a ir", no word, "fue".
IrTranscript ==
  Transcript(<< Segment(<< Word(<<"V","a">>), Word(<<"a">>), Word(<<"i","r">>) >>),
                Segment(<<>>),
                Segment(<< Word(<<"f","u","e">>) >>) >>)

\* The most files of the directory in the run on the forms of ir.
MaxFilesIr == 1

\* One run of the script with that model on that transcript.
SpecIr == InitWith(IrTokens, {IrTranscript}, MaxFilesIr) /\ [][Next]_vars

\* ------------------------------------------- the segmenter on any word list

\* The texts of the word lists the segmenter is applied to.
SentenceVocab ==
  { <<"H","o","y">>, <<"l","l","u","e","v","e">>, <<".">>, <<"M","a","ñ","a","n","a">>,
    <<"n","o">>, <<"s","i","?"," ">> }

\* The longest word list the segmenter is applied to.
MaxSentenceWords == 5

\* One segment of up to MaxSentenceWords words is loaded.
InitSentences ==
  /\ DbFresh
  /\ nlp = TokenPool
  /\ disk = <<>>
  /\ pc = "split"
  /\ run = 1
  /\ overwrite_existing = FALSE
  /\ filtered_files = <<>>
  /\ progress = [annotated |-> 0, total |-> 0, last_step |-> 0]
  /\ fidx = 1
  /\ \E texts \in SeqsUpTo(SentenceVocab, MaxSentenceWords) :
       data = Transcript(<< Segment([k \in 1..Len(texts) |-> Word(texts[k])]) >>)
  /\ sidx = 1
  /\ sl = <<>>
  /\ i = 0
  /\ ctx = <<>>
  /\ text = <<>>
  /\ doc = <<>>
  /\ tok = 0
  /\ widx = 1
  /\ writes = <<>>
  /\ prior = {}
  /\ disk0 = <<>>

\* sl = split_into_sentences(wl)
SplitWords ==
  /\ UNCHANGED dbVars
  /\ pc = "split"
  /\ sl' = split_into_sentences(data.segments[sidx].words)
  /\ pc' = "window"
  /\ UNCHANGED <<nlp, disk, run, mainVars, progress, fidx, data, sidx, i, ctx, text, doc, tok,
                 widx, histVars>>

\* The context window and the tagger's string of one of the sentences.
BuildWindow ==
  /\ UNCHANGED dbVars
  /\ pc = "window"
  /\ \E idx \in 0..(Len(sl) - 1) :
       /\ i' = idx
       /\ ctx' = ContextWindow(sl, idx)
       /\ text' = TaggerString(data.segments[sidx].words, ContextWindow(sl, idx))
  /\ pc' = "tagged"
  /\ UNCHANGED <<nlp, disk, run, mainVars, progress, fidx, data, sidx, sl, doc, tok, widx,
                 histVars>>

NextSentences == SplitWords \/ BuildWindow

SpecSentences == InitSentences /\ [][NextSentences]_vars

\* The words of the segment the segmenter was applied to.
SplitInput == data.segments[sidx].words

\* The final character of w's trimmed text is a sentence terminator.
EndsTerminal(w) ==
  LET t == Strip(w.text)
  IN  t # <<>> /\ t[Len(t)] \in {".", "?", "!"}

\* C5: split_into_sentences returns non-empty sentences whose concatenation,
\* in order, is the input list: every word in exactly one sentence, once, in
\* the original order; an empty input yields no sentence.
C5_SplitCoversInput ==
  pc \in {"window", "tagged"} =>
    /\ \A s \in 1..Len(sl) : sl[s] # <<>>
    /\ Flatten(sl) = [k \in 1..Len(SplitInput) |-> k]
    /\ Pick(SplitInput, Flatten(sl)) = SplitInput
    /\ (SplitInput = <<>> => sl = <<>>)

\* C5's case: a list split into a closed sentence and an open remainder.
C5_Witness ==
  /\ pc = "window"
  /\ Len(sl) = 2
  /\ Len(sl[1]) = 3
  /\ Len(sl[2]) = 2
  /\ ~EndsTerminal(SplitInput[5])

\* C6: a word whose trimmed text ends with '.', '?' or '!' is the last word
\* of its sentence, every sentence but the last ends with such a word, and
\* Hoy llueve . Mañana no gives [Hoy llueve .] and [Mañana no].
C6_SentencesEndAtTerminators ==
  pc \in {"window", "tagged"} =>
    /\ \A s \in 1..Len(sl) : \A k \in 1..Len(sl[s]) :
         EndsTerminal(SplitInput[sl[s][k]]) => k = Len(sl[s])
    /\ \A s \in 1..(Len(sl) - 1) : EndsTerminal(SplitInput[sl[s][Len(sl[s])]])
    /\ ( [k \in 1..Len(SplitInput) |-> SplitInput[k].text]
           = << <<"H","o","y">>, <<"l","l","u","e","v","e">>, <<".">>,
                <<"M","a","ñ","a","n","a">>, <<"n","o">> >>
         => sl = << <<1, 2, 3>>, <<4, 5>> >> )

\* C6's case: the example of the specification, split.
C6_Witness ==
  /\ pc = "window"
  /\ [k \in 1..Len(SplitInput) |-> SplitInput[k].text]
       = << <<"H","o","y">>, <<"l","l","u","e","v","e">>, <<".">>,
            <<"M","a","ñ","a","n","a">>, <<"n","o">> >>
  /\ sl = << <<1, 2, 3>>, <<4, 5>> >>

\* s with single spaces between its elements' characters.
RECURSIVE SpaceJoined(_)
SpaceJoined(parts) ==
  IF Len(parts) = 0 THEN <<>>
  ELSE IF Len(parts) = 1 THEN parts[1]
  ELSE SpaceJoined(SubSeq(parts, 1, Len(parts) - 1)) \o <<" ">> \o parts[Len(parts)]

WordsIn(t) ==
  UNION {{<<s, k>> : k \in 1..Len(Get(t.segments[s], "words", <<>>))} :
           s \in 1..Len(t.segments)}

WordAt(t, p) == t.segments[p[1]].words[p[2]]

\* A word without what annotation adds to it.
Unannotated(w) == [f \in DOMAIN w \ ANNOTATION_KEYS |-> w[f]]

\* The words of t in their order, segment by segment, without annotation.
WordOrder(t) ==
  [s \in 1..Len(t.segments) |->
     [k \in 1..Len(Get(t.segments[s], "words", <<>>)) |->
        Unannotated(t.segments[s].words[k])]]

\* The files annotate_file has written in this run.
Written == {writes[k] : k \in 1..Len(writes)}

\* annotate_file is at work on the loaded record.
Annotating == pc \in {"seg", "sent", "word", "post"}

CORE_KEYS == {"pos", "lemma", "dep", "head_text"}

\* C1: the words of every segment are after annotation the words before it,
\* as many and in the same order, whatever the tagger returned.
C1_WordOrderKept ==
  /\ \A f \in 1..Len(disk) : WordOrder(disk[f].data) = WordOrder(disk0[f].data)
  /\ Annotating => WordOrder(data) = WordOrder(disk0[filtered_files[fidx]].data)

\* C1's case: a written transcript of three words, the last annotated from
\* the tagger's tokens.
C1_Witness ==
  /\ writes # <<>>
  /\ \E f \in Written :
       LET ws == Get(disk[f].data.segments[1], "words", <<>>)
       IN  Len(ws) = 3 /\ Get(ws[3], "pos", "") = "VERB"

\* C2 as claimed: every word of an annotated transcript has either all four
\* of pos, lemma, dep, head_text, or is foreign-flagged and has none.
C2_AllFourOrForeign ==
  \A f \in Written : \A p \in WordsIn(disk[f].data) :
    LET w == WordAt(disk[f].data, p)
    IN  \/ CORE_KEYS \subseteq DOMAIN w
        \/ IsForeign(w) /\ DOMAIN w \cap CORE_KEYS = {}

\* C2, amended: every word of an annotated transcript has all four of pos,
\* lemma, dep, head_text, or is foreign-flagged and has none of them, or is a
\* broken-off word (text ending in '-', not foreign-flagged) and has of the
\* four only pos, the value "self-correction".
C2_AllFourOrForeignOrBrokenOff ==
  \A f \in Written : \A p \in WordsIn(disk[f].data) :
    LET w == WordAt(disk[f].data, p)
    IN  \/ CORE_KEYS \subseteq DOMAIN w /\ ~IsForeign(w) /\ ~IsBrokenOff(w)
        \/ IsForeign(w) /\ DOMAIN w \cap CORE_KEYS = {}
        \/ /\ ~IsForeign(w) /\ IsBrokenOff(w)
           /\ DOMAIN w \cap CORE_KEYS = {"pos"}
           /\ w.pos = "self-correction"

\* C2's case: a written transcript with a broken-off word that has pos only,
\* an interjection and a plain word that have all four fields.
C2_Witness ==
  \E f \in Written :
    LET ws == Get(disk[f].data.segments[1], "words", <<>>)
    IN  /\ Len(ws) = 3
        /\ IsBrokenOff(ws[1]) /\ DOMAIN ws[1] \cap CORE_KEYS = {"pos"}
        /\ IsInterjection(ws[2]) /\ CORE_KEYS \subseteq DOMAIN ws[2]
        /\ CORE_KEYS \subseteq DOMAIN ws[3]

TokenPerWindowWord ==
  /\ Len(doc) = Len(ctx)
  /\ \A c \in 1..Len(ctx) :
       /\ ~doc[c].is_punct
       /\ ~doc[c].is_space
       /\ doc[c].text = strip_punct(Lower(data.segments[sidx].words[ctx[c]].text))

\* C4: when the tagger returns one token per window word, every non-special
\* word of the current sentence is annotated with the token at the word's
\* own position in the window, for every sentence index.
C4_AnnotatedFromOwnToken ==
  (pc = "word" /\ TokenPerWindowWord) =>
    LET words  == data.segments[sidx].words
        sent   == sl[i + 1]
        before == IF i > 0 THEN Len(sl[i]) ELSE 0
    IN  \A j \in 1..(widx - 1) :
          ~IsSpecial(words[sent[j]]) =>
            words[sent[j]] =
              Update(Unannotated(words[sent[j]]),
                     [pos |-> doc[before + j].pos_, lemma |-> doc[before + j].lemma_,
                      dep |-> doc[before + j].dep_,
                      head_text |-> doc[before + j].head_text,
                      morph |-> doc[before + j].morph])

\* Some word of some segment of t carries a pos or a morph field.
CarriesPosOrMorph(t) ==
  \E p \in WordsIn(t) : Has(WordAt(t, p), "pos") \/ Has(WordAt(t, p), "morph")

Range(q) == {q[k] : k \in 1..Len(q)}

\* The words the files q of the directory held when the run began.
RECURSIVE WordCount(_)
WordCount(q) ==
  IF q = <<>> THEN 0
  ELSE Cardinality(WordsIn(disk0[Head(q)].data)) + WordCount(Tail(q))

\* The files main keeps of the first n files of the directory.
KeptOfFirst(n) ==
  LET Keep(f) == overwrite_existing \/ ~CarriesPosOrMorph(disk0[f].data)
  IN  SelectSeq([f \in 1..n |-> f], Keep)

\* C8: without overwrite, a transcript with a pos or a morph field on any
\* word is skipped: annotate_file is not called for it, its file is not
\* written, its words are not in the progress total; of the files chosen,
\* every transcript without such a field is processed.
C8_AnnotatedTranscriptSkipped ==
  /\ ~overwrite_existing =>
       \A f \in 1..Len(disk) :
         CarriesPosOrMorph(disk0[f].data) =>
           /\ f \notin Range(filtered_files)
           /\ f \notin Written
           /\ disk[f] = disk0[f]
  /\ \E n \in 0..Len(disk) : filtered_files = KeptOfFirst(n)
  /\ Annotating => filtered_files[fidx] \notin Written
  /\ (pc = "loop" \/ Annotating) => progress.total = WordCount(filtered_files)
  /\ pc = "done" => writes = filtered_files

\* C8's case: of two chosen files the first, carrying a stray morph only, was
\* skipped and the second, carrying nothing, was processed and written.
C8_Witness ==
  /\ pc = "done"
  /\ ~overwrite_existing
  /\ Len(disk) = 2
  /\ CarriesPosOrMorph(disk0[1].data)
  /\ ~(\E p \in WordsIn(disk0[1].data) : Has(WordAt(disk0[1].data, p), "pos"))
  /\ disk[1] = disk0[1]
  /\ writes = <<2>>
  /\ disk[2] # disk0[2]

\* C9: a run without overwrite leaves every file an earlier run has written
\* as it is, byte for byte; if the file carries an annotation the run skips
\* it and does not write it.
C9_SecondRunKeepsFile ==
  ~overwrite_existing =>
    \A f \in prior :
      /\ disk[f] = disk0[f]
      /\ CarriesPosOrMorph(disk0[f].data) =>
           f \notin Range(filtered_files) /\ f \notin Written

\* C9's case: the second run, without overwrite, has ended and left the file
\* the first run annotated from the tagger's tokens.
C9_Witness ==
  /\ run = 2
  /\ pc = "done"
  /\ ~overwrite_existing
  /\ 1 \in prior
  /\ disk[1].layout = "dump"
  /\ \E p \in WordsIn(disk[1].data) : Get(WordAt(disk[1].data, p), "pos", "") = "AUX"
  /\ writes = <<>>

\* The word carries a value of the annotation the file came with.
CarriesOld(w) ==
  \/ Get(w, "pos", "") = OldAnnotation.pos
  \/ Get(w, "lemma", <<>>) = OldAnnotation.lemma
  \/ Get(w, "dep", "") = OldAnnotation.dep
  \/ Get(w, "head_text", <<>>) = OldAnnotation.head_text
  \/ /\ Has(w, "morph")
     /\ \/ Get(w.morph, "Past_Tense_Type", "") = OldAnnotation.morph.Past_Tense_Type
        \/ Get(w.morph, "Future_Type", "") = OldAnnotation.morph.Future_Type

\* C10: when a transcript is reprocessed, the five annotation fields are
\* removed from every word before any word is annotated, and no word of the
\* annotated transcript carries a value or a label of the earlier annotation.
C10_EarlierAnnotationRemoved ==
  /\ (pc = "seg" /\ sidx = 1) =>
       \A p \in WordsIn(data) : DOMAIN WordAt(data, p) \cap ANNOTATION_KEYS = {}
  /\ Annotating => \A p \in WordsIn(data) : ~CarriesOld(WordAt(data, p))
  /\ \A f \in Written : \A p \in WordsIn(disk[f].data) : ~CarriesOld(WordAt(disk[f].data, p))

\* C10's case: two transcripts annotated before have been written again, one
\* with foreign-flagged words, one with a broken-off word.
C10_Witness ==
  /\ \E f \in Written : \E p \in WordsIn(disk[f].data) :
       IsForeign(WordAt(disk[f].data, p)) /\ CarriesOld(WordAt(disk0[f].data, p))
  /\ \E f \in Written : \E p \in WordsIn(disk[f].data) :
       /\ ~IsForeign(WordAt(disk[f].data, p))
       /\ IsBrokenOff(WordAt(disk[f].data, p))
       /\ CarriesOld(WordAt(disk0[f].data, p))

\* ------------------------------- the two post-processing passes on any words

\* A word as the annotation step leaves it.
TaggedWord(txt, pos, head_text, morph) ==
  [text |-> txt, pos |-> pos, lemma |-> txt, dep |-> "dep", head_text |-> head_text,
   morph |-> morph]

PastPart == [Tense |-> {"Past"}, VerbForm |-> {"Part"}]

\* The words the passes are applied to: past forms that are finite, participles
\* with a head in each lexicon of haber and with another head, a past form
\* that is neither; auxiliaries in the present, the imperfect and the past; the
\* preposition, an infinitive; and words whose morph is null, missing or a list.
ClassifierWords ==
  { TaggedWord(<<"f","u","i">>, "VERB", <<"h","a">>,
               [Tense |-> {"Past"}, VerbForm |-> {"Fin", "Part"}]),
    TaggedWord(<<"i","d","o">>, "VERB", <<"h","a">>, PastPart),
    TaggedWord(<<"i","d","o">>, "VERB", <<"H","a","b","í","a">>, PastPart),
    TaggedWord(<<"i","d","o">>, "VERB", <<"h","a","b","r","á">>, PastPart),
    TaggedWord(<<"i","d","o">>, "VERB", <<"h","a","b","r","í","a">>, PastPart),
    TaggedWord(<<"i","d","o">>, "VERB", <<"l","o">>, PastPart),
    TaggedWord(<<"s","i","d","o">>, "VERB", <<"l","o">>, PastPart),
    TaggedWord(<<"f","u","e">>, "AUX", <<"i","d","o">>, [Tense |-> {"Past"}]),
    TaggedWord(<<"V","a">>, "AUX", <<"S","i","d","o">>, [Tense |-> {"Pres"}]),
    TaggedWord(<<"i","b","a">>, "AUX", <<"l","o">>, [Tense |-> {"Imp"}]),
    TaggedWord(<<"a">>, "ADP", <<"i","r">>, EmptyDict),
    TaggedWord(<<"A">>, "ADP", <<"i","r">>, EmptyDict),
    TaggedWord(<<"i","r">>, "VERB", <<"i","d","o">>,
               [VerbForm |-> {"Inf"}, Tense |-> {"Pres"}]),
    TaggedWord(<<"h","a">>, "AUX", <<"i","d","o">>, None),
    [text |-> <<"h","a">>, pos |-> "AUX", head_text |-> <<"i","d","o">>],
    TaggedWord(<<"i","r">>, "VERB", <<"l","o">>, EmptyList) }

\* The words of the segment that follows the one under test: none, or a
\* present auxiliary whose head is the participle of the other segment.
OtherSegments ==
  { <<>>, << TaggedWord(<<"h","a">>, "AUX", <<"i","d","o">>, [Tense |-> {"Pres"}]) >> }

\* The longest segment the passes are applied to.
MaxSegmentWords == 3

\* A record of two segments is loaded, as if annotated; the file keeps it.
InitClassify ==
  /\ DbFresh
  /\ nlp = TokenPool
  /\ \E words \in SeqsUpTo(ClassifierWords, MaxSegmentWords), other \in OtherSegments :
       /\ data = Transcript(<< Segment(words), Segment(other) >>)
       /\ disk = << [layout |-> "orig", data |-> data] >>
  /\ pc = "tenses"
  /\ run = 1
  /\ overwrite_existing = FALSE
  /\ filtered_files = <<>>
  /\ progress = [annotated |-> 0, total |-> 0, last_step |-> 0]
  /\ fidx = 1
  /\ sidx = 1
  /\ sl = <<>>
  /\ i = 0
  /\ ctx = <<>>
  /\ text = <<>>
  /\ doc = <<>>
  /\ tok = 0
  /\ widx = 1
  /\ writes = <<>>
  /\ prior = {}
  /\ disk0 = disk

\* post_process_compound_tenses(data)
PostProcessTenses ==
  /\ UNCHANGED dbVars
  /\ pc = "tenses"
  /\ LET tenses == post_process_compound_tenses(data)
     IN  IF tenses.ok
         THEN data' = tenses.val /\ pc' = "futures"
         ELSE pc' = "raised" /\ UNCHANGED data
  /\ UNCHANGED <<nlp, disk, run, mainVars, progress, fidx, sidx, sentVars, histVars>>

\* post_process_compound_futures(data)
PostProcessFutures ==
  /\ UNCHANGED dbVars
  /\ pc = "futures"
  /\ LET futures == post_process_compound_futures(data)
     IN  IF futures.ok
         THEN data' = futures.val /\ pc' = "classified"
         ELSE pc' = "raised" /\ UNCHANGED data
  /\ UNCHANGED <<nlp, disk, run, mainVars, progress, fidx, sidx, sentVars, histVars>>

NextClassify == PostProcessTenses \/ PostProcessFutures

SpecClassify == InitClassify /\ [][NextClassify]_vars

\* The words of segment s of the record the passes were given, and of the
\* record as the passes have left it so far.
GivenWords(s) == Get(disk[1].data.segments[s], "words", <<>>)

LeftWords(s) == Get(data.segments[s], "words", <<>>)

\* The value of a synthetic label of a word, "" when the word has none.
Label(w, key) == Get(Get(w, "morph", EmptyDict), key, "")

\* The values of a feature the tagger gave a word, none when the word has no
\* morph that is a mapping.
Feature(w, key) ==
  IF IsDict(Get(w, "morph", None)) THEN Get(w.morph, key, {}) ELSE {}

TensesDone == pc \in {"futures", "classified"}

InNoLexicon(head) ==
  head \notin (PRESENT_FORMS \cup IMPERFECT_FORMS \cup FUTURE_FORMS \cup COND_FORMS)

\* C11: once post_process_compound_tenses has returned, a word has a
\* Past_Tense_Type only if its Tense contains Past, and then PerfectoSimple
\* if VerbForm contains Fin; else, if VerbForm contains Part, the label its
\* lower-cased head_text selects among the four lexicons of haber (outside
\* them one of the two labels of the same-segment scan); else PastOther.
C11_PastTensePolicy ==
  TensesDone =>
    \A s \in 1..Len(data.segments) : \A k \in 1..Len(GivenWords(s)) :
      LET given == GivenWords(s)[k]
          head  == Lower(Get(given, "head_text", <<>>))
          label == Label(LeftWords(s)[k], "Past_Tense_Type")
      IN  IF "Past" \notin Feature(given, "Tense") THEN label = ""
          ELSE IF "Fin" \in Feature(given, "VerbForm") THEN label = "PerfectoSimple"
          ELSE IF "Part" \in Feature(given, "VerbForm")
               THEN /\ head \in PRESENT_FORMS => label = "PerfectoCompuesto"
                    /\ head \in IMPERFECT_FORMS => label = "Pluscuamperfecto"
                    /\ head \in FUTURE_FORMS => label = "FuturoPerfecto"
                    /\ head \in COND_FORMS => label = "CondicionalPerfecto"
                    /\ InNoLexicon(head) => label \in {"PerfectoCompuesto", "OtroCompuesto"}
          ELSE label = "PastOther"

\* C11 happens: a finite form that is also a participle, a participle whose
\* head is "Había" and a past form that is neither were classified together.
C11_Witness ==
  /\ pc = "classified"
  /\ Len(GivenWords(1)) = 3
  /\ Feature(GivenWords(1)[1], "VerbForm") = {"Fin", "Part"}
  /\ Label(LeftWords(1)[1], "Past_Tense_Type") = "PerfectoSimple"
  /\ GivenWords(1)[2].head_text = <<"H","a","b","í","a">>
  /\ Label(LeftWords(1)[2], "Past_Tense_Type") = "Pluscuamperfecto"
  /\ Label(LeftWords(1)[3], "Past_Tense_Type") = "PastOther"

\* Whether another word of the same words is a present auxiliary whose
\* lower-cased head_text is the lower-cased text of the word at k.
HasPresentAuxiliary(words, k) ==
  \E j \in (1..Len(words)) \ {k} :
    /\ Get(words[j], "pos", "") = "AUX"
    /\ "Pres" \in Feature(words[j], "Tense")
    /\ Lower(Get(words[j], "head_text", <<>>)) = Lower(words[k].text)

\* The past participles (not finite) whose head is in no lexicon of haber.
OtherParticiples(words) ==
  { k \in 1..Len(words) :
      /\ "Past" \in Feature(words[k], "Tense")
      /\ "Fin" \notin Feature(words[k], "VerbForm")
      /\ "Part" \in Feature(words[k], "VerbForm")
      /\ InNoLexicon(Lower(Get(words[k], "head_text", <<>>))) }

\* C12: once post_process_compound_tenses has returned, a past participle
\* whose head is in no lexicon of haber is PerfectoCompuesto if another word
\* of its own segment is a present auxiliary with the participle as head, and
\* OtroCompuesto if not, whatever the other segments hold.
C12_SameSegmentAuxiliary ==
  TensesDone =>
    \A s \in 1..Len(data.segments) : \A k \in OtherParticiples(GivenWords(s)) :
      Label(LeftWords(s)[k], "Past_Tense_Type") =
        IF HasPresentAuxiliary(GivenWords(s), k) THEN "PerfectoCompuesto"
        ELSE "OtroCompuesto"

\* C12 happens: of two such participles of a segment, "sido" is the head of
\* the segment's present auxiliary, and "ido" is the head of no auxiliary
\* but the one of the next segment.
C12_Witness ==
  /\ pc = "classified"
  /\ \E k1, k2 \in OtherParticiples(GivenWords(1)) :
       /\ GivenWords(1)[k1].text = <<"i","d","o">>
       /\ Label(LeftWords(1)[k1], "Past_Tense_Type") = "OtroCompuesto"
       /\ GivenWords(1)[k2].text = <<"s","i","d","o">>
       /\ Label(LeftWords(1)[k2], "Past_Tense_Type") = "PerfectoCompuesto"
  /\ \E j \in 1..Len(GivenWords(2)) :
       /\ "Pres" \in Feature(GivenWords(2)[j], "Tense")
       /\ GivenWords(2)[j].head_text = <<"i","d","o">>

\* Whether the words at first, first + 1 and first + 2 are an auxiliary with a Tense, the
\* preposition "a" (as written, or in any case when folded) and an infinitive.
IsFutureTriple(words, first, folded) ==
  /\ Get(words[first], "pos", "") = "AUX"
  /\ Feature(words[first], "Tense") # {}
  /\ (IF folded THEN Lower(Get(words[first + 1], "text", <<>>))
                ELSE Get(words[first + 1], "text", <<>>)) = <<"a">>
  /\ Get(words[first + 1], "pos", "") = "ADP"
  /\ Get(words[first + 2], "pos", "") = "VERB"
  /\ "Inf" \in Feature(words[first + 2], "VerbForm")

\* The Future_Type the word at k is to have as the third word of its triple.
FutureOf(words, k, folded) ==
  IF k < 3 THEN ""
  ELSE IF ~IsFutureTriple(words, k - 2, folded) THEN ""
  ELSE IF "Pres" \in Feature(words[k - 2], "Tense") THEN "analyticalFuture"
  ELSE IF "Imp" \in Feature(words[k - 2], "Tense") THEN "analyticalFuture_past"
  ELSE ""

\* C13 as claimed: once both passes have returned, a word has the Future_Type
\* of its triple, the second word of a triple having exactly the text "a".
C13_FutureOfExactA ==
  pc = "classified" =>
    \A s \in 1..Len(data.segments) : \A k \in 1..Len(GivenWords(s)) :
      Label(LeftWords(s)[k], "Future_Type") = FutureOf(GivenWords(s), k, FALSE)

\* C13: once both passes have returned, the third word of an auxiliary with a
\* Tense, a word whose lower-cased text is "a" tagged ADP, and a VERB whose
\* VerbForm contains Inf has Future_Type analyticalFuture if the Tense
\* contains Pres, analyticalFuture_past if it contains Imp; no other word and
\* no other tense has a Future_Type.
C13_FutureOfFoldedA ==
  pc = "classified" =>
    \A s \in 1..Len(data.segments) : \A k \in 1..Len(GivenWords(s)) :
      Label(LeftWords(s)[k], "Future_Type") = FutureOf(GivenWords(s), k, TRUE)

\* C13 happens: "iba a ir" was labelled analyticalFuture_past.
C13_Witness ==
  /\ pc = "classified"
  /\ Len(GivenWords(1)) = 3
  /\ GivenWords(1)[1].text = <<"i","b","a">>
  /\ GivenWords(1)[2].text = <<"a">>
  /\ Label(LeftWords(1)[3], "Future_Type") = "analyticalFuture_past"

\* A word whose morph is missing or no mapping.
Malformed(w) == ~IsDict(Get(w, "morph", None))

\* C16 as claimed: on words some of which have a missing morph or a morph
\* that is no mapping, neither pass raises, and both leave those words as
\* they were.
C16_MalformedMorphSkipped ==
  /\ pc # "raised"
  /\ \A s \in 1..Len(data.segments) : \A k \in 1..Len(GivenWords(s)) :
       Malformed(GivenWords(s)[k]) => LeftWords(s)[k] = GivenWords(s)[k]

\* C14: in every record annotate_file has written, a word carries
\* Past_Tense_Type exactly if the Tense the tagger gave it contains Past, and
\* Future_Type exactly if it is the third word of an auxiliary (present or
\* imperfect), "a" and infinitive triple of its segment.
C14_SyntheticLabelsWhereDue ==
  \A f \in Written : \A s \in 1..Len(disk[f].data.segments) :
    LET words == Get(disk[f].data.segments[s], "words", <<>>)
    IN  \A k \in 1..Len(words) :
          LET morph == Get(words[k], "morph", EmptyDict)
          IN  /\ Has(morph, "Past_Tense_Type") <=> "Past" \in Feature(words[k], "Tense")
              /\ Has(morph, "Future_Type") <=> FutureOf(words, k, TRUE) # ""

\* C14 happens: a written record in which "ir" of "Va a ir" carries
\* Future_Type and "Va" no label, and "fue" carries Past_Tense_Type and no
\* Future_Type.
C14_Witness ==
  \E f \in Written :
    LET first == disk[f].data.segments[1].words
        third == disk[f].data.segments[3].words
    IN  /\ Label(first[3], "Future_Type") = "analyticalFuture"
        /\ Label(first[1], "Past_Tense_Type") = ""
        /\ Label(third[1], "Past_Tense_Type") = "PastOther"
        /\ Label(third[1], "Future_Type") = ""

\* ----------------------------------------------------- the alignment steps

\* The file annotate_file is at work on.
CurFile == filtered_files[fidx]

\* The body of "for w in sent" runs for the word the loop stands at, and the
\* word as the body leaves it.
WordStep == pc = "word" /\ widx <= Len(sl[i + 1]) /\ pc' = "word"

CurWordAfter == data'.segments[sidx].words[sl[i + 1][widx]]

\* C15: nlp fails only while the file is as the run found it, the failure
\* ends the run with no file changed, nothing follows it, and a file is
\* changed only by the step that follows the two post-processing passes.
C15_TaggerFailureWritesNothing ==
  [][ /\ pc # "crashed"
      /\ (pc \in {"sent", "word"} /\ pc' = "crashed") =>
           /\ disk' = disk
           /\ disk[CurFile] = disk0[CurFile]
           /\ writes' = writes
      /\ disk' # disk =>
           /\ pc = "post"
           /\ \A f \in (1..Len(disk)) \ {CurFile} : disk'[f] = disk[f] ]_vars

\* C15 happens: the run ended on a failure of nlp while it annotated its
\* second file; the first file is written, the second is as it was.
C15_Witness ==
  /\ pc = "crashed"
  /\ Len(filtered_files) = 2
  /\ writes = << filtered_files[1] >>
  /\ disk[filtered_files[1]] # disk0[filtered_files[1]]
  /\ disk[filtered_files[2]] = disk0[filtered_files[2]]

\* No token of d from the cursor t on is a word token that matches w: the
\* direct comparison and the forward search both fail.
Missed(w, d, t) ==
  \A j \in (t + 1)..Len(d) :
    d[j].is_punct \/ d[j].is_space \/ ~Matches(d[j], Get(w, "text", <<>>))

\* w carries the annotation of token t.
AnnotatedFrom(w, t) ==
  /\ ANNOTATION_KEYS \subseteq DOMAIN w
  /\ w.pos = t.pos_ /\ w.lemma = t.lemma_ /\ w.dep = t.dep_
  /\ w.head_text = t.head_text /\ w.morph = t.morph

\* w carries the empty annotation with the given lemma.
AnnotatedEmpty(w, lemma) ==
  /\ ANNOTATION_KEYS \subseteq DOMAIN w
  /\ w.pos = "" /\ w.lemma = lemma /\ w.dep = ""
  /\ w.head_text = <<>> /\ w.morph = EmptyDict

NotSpecialCase(w) ==
  /\ Get(w, "foreign", "") # "1"
  /\ ~EndsWith(Get(w, "text", <<>>), <<"-">>)
  /\ Lower(Get(w, "text", <<>>)) # <<"e","e","h">>

\* C17 as claimed: a word no token matches leaves the alignment step with
\* the annotation of a token of the model or with the empty annotation whose
\* lemma is the word's text as it stands in the transcript.
C17_MissGetsOriginalText ==
  [][ (WordStep /\ NotSpecialCase(CurWord) /\ Missed(CurWord, doc, tok)) =>
        \/ \E t \in nlp : AnnotatedFrom(CurWordAfter, t)
        \/ AnnotatedEmpty(CurWordAfter, Get(CurWord, "text", <<>>)) ]_vars

\* C18: the step for a foreign-flagged word, a word ending in "-" or the
\* word "eeh" leaves the cursor where it was, and the word is one of the
\* words of the context window.
C18_SpecialCaseKeepsCursor ==
  [][ (WordStep /\ ~NotSpecialCase(CurWord)) =>
        /\ tok' = tok
        /\ \E j \in 1..Len(ctx) : ctx[j] = sl[i + 1][widx] ]_vars

\* C18 happens: the loop stands at the third word after "tu-" and "Eeh",
\* the cursor at the first of the tokens nlp returned.
C18_Witness ==
  /\ pc = "word"
  /\ widx = 3
  /\ Len(doc) = MaxDoc
  /\ tok = 0
  /\ data.segments[sidx].words[1].pos = "self-correction"
  /\ data.segments[sidx].words[2].pos = "INTJ"

\* C19: the step for a foreign-flagged word, whatever its text, changes no
\* word of the record and adds one to the count of processed words.
C19_ForeignWordSkipped ==
  [][ (WordStep /\ Get(CurWord, "foreign", "") = "1") =>
        /\ data' = data
        /\ DOMAIN CurWordAfter \cap ANNOTATION_KEYS = {}
        /\ progress'.annotated = progress.annotated + 1 ]_vars

\* C19 happens: the foreign-flagged "tu-" and "Eeh" are written without any
\* annotation field.
C19_Witness ==
  \E f \in Written :
    /\ Len(disk[f].data.segments) = 3
    /\ disk[f].data.segments[1].words = << Foreign(<<"t","u","-">>) >>
    /\ disk[f].data.segments[3].words = << Foreign(<<"E","e","h">>) >>
    /\ disk[f].layout = "dump"

\* C20: the step for a word ending in "-" that is not foreign-flagged sets
\* its pos to "self-correction" and nothing else: the word has no other
\* annotation field, and no other word changes.
C20_BrokenOffGetsPosOnly ==
  [][ (/\ WordStep
       /\ Get(CurWord, "foreign", "") # "1"
       /\ EndsWith(Get(CurWord, "text", <<>>), <<"-">>)) =>
        /\ CurWordAfter = Put(CurWord, "pos", "self-correction")
        /\ DOMAIN CurWordAfter \cap ANNOTATION_KEYS = {"pos"}
        /\ data' = SetWord(data, sidx, sl[i + 1][widx], CurWordAfter) ]_vars

\* C20 happens: "tu-" went through the step and has pos only, with the file
\* that came annotated in every field.
C20_Witness ==
  /\ pc = "word"
  /\ widx = 2
  /\ CarriesOld(disk0[CurFile].data.segments[1].words[1])
  /\ data.segments[sidx].words[1] =
       [text |-> <<"t","u","-">>, pos |-> "self-correction"]

\* ------------------------------------------ the word loop on any Tagged Unit

\* Tokens of a model that returns words, punctuation and whitespace.
AlignTokens ==
  { Token(<<"t","u">>, FALSE, "PRON", <<"t","ú">>, "nsubj", <<"s","i">>, EmptyDict),
    Token(<<"s","i">>, FALSE, "SCONJ", <<"s","i">>, "mark", <<"t","u">>, EmptyDict),
    Token(<<",">>, TRUE, "PUNCT", <<",">>, "punct", <<"t","u">>, EmptyDict),
    [ Token(<<" ">>, FALSE, "SPACE", <<" ">>, "dep", <<"t","u">>, EmptyDict)
        EXCEPT !.is_space = TRUE ] }

\* The texts of the words that are aligned: one that ends a sentence, one
\* broken off before a comma, and one the model has no token for.
AlignVocab ==
  { <<"T","u",".">>, <<"t","u","-",",">>, <<"n","o">> }

\* The longest segment that is aligned.
MaxAlignWords == 3

\* The longest Tagged Unit nlp returns for a context window of the segment.
MaxAlignDoc == 3

\* annotate_file has split the only segment of its file, of one to
\* MaxAlignWords words, into sentences.
InitAlign ==
  /\ DbFresh
  /\ nlp = AlignTokens
  /\ \E texts \in SeqsUpTo(AlignVocab, MaxAlignWords) \ {<<>>} :
       /\ data = Transcript(<< Segment([k \in 1..Len(texts) |-> Word(texts[k])]) >>)
       /\ progress = [annotated |-> 0, total |-> Len(texts), last_step |-> 0]
  /\ disk = << [layout |-> "orig", data |-> data] >>
  /\ pc = "sent"
  /\ run = 1
  /\ overwrite_existing = FALSE
  /\ filtered_files = << 1 >>
  /\ fidx = 1
  /\ sidx = 1
  /\ sl = split_into_sentences(data.segments[1].words)
  /\ i = 0
  /\ ctx = <<>>
  /\ text = <<>>
  /\ doc = <<>>
  /\ tok = 0
  /\ widx = 1
  /\ writes = <<>>
  /\ prior = {}
  /\ disk0 = disk

\* The context window is tagged, nlp answering with up to MaxAlignDoc tokens.
TagSentenceLong == TagSentenceWith(SeqsUpTo(nlp, MaxAlignDoc))

NextAlign == TagSentenceLong \/ AlignWord

\* The loops over the sentences and the words of one segment.
SpecAlign == InitAlign /\ [][NextAlign]_vars

\* txt ends in "-" followed by punctuation.
BrokenOffBeforePunct(txt) ==
  \E n \in 1..(Len(txt) - 1) :
    /\ txt[n] = "-"
    /\ \A j \in (n + 1)..Len(txt) : txt[j] \in PUNCT_CHARS

\* C21 as claimed: the step for a word that is not foreign-flagged and whose
\* final "-" is followed by punctuation, as in "tu-,", leaves the word with
\* pos = "self-correction".
C21_BrokenOffBeforePunctMarked ==
  [][ (/\ WordStep
       /\ Get(CurWord, "foreign", "") # "1"
       /\ BrokenOffBeforePunct(Get(CurWord, "text", <<>>))) =>
        Get(CurWordAfter, "pos", "") = "self-correction" ]_vars

\* s case-folded and without its leading and trailing punctuation.
Normalized(s) ==
  LET low  == Lower(s)
      keep == {k \in 1..Len(low) : low[k] \notin PUNCT_CHARS}
  IN  IF keep = {} THEN <<>>
      ELSE SubSeq(low, CHOOSE k \in keep : \A m \in keep : k <= m,
                       CHOOSE k \in keep : \A m \in keep : m <= k)

\* d has a word token at index j (counted from 0).
WordTokenAt(d, j) == j < Len(d) /\ ~d[j + 1].is_punct /\ ~d[j + 1].is_space

\* The cursor t moved past every token of d flagged as punctuation or
\* whitespace: the first index from t on with a word token, or the length of d.
PastPunct(d, t) ==
  CHOOSE j \in t..Len(d) :
    /\ \A m \in t..(j - 1) : ~WordTokenAt(d, m)
    /\ j < Len(d) => WordTokenAt(d, j)

\* The token of d at index j (counted from 0) has the normalized text of w.
SameText(d, j, w) == Normalized(d[j + 1].text) = Normalized(Get(w, "text", <<>>))

\* w as it was before it got any annotation field, and after.
SameButAnnotation(before, after) == Unannotated(after) = Unannotated(before)

\* C22: in the step for a word that is no special case, when the first word
\* token from the cursor on has the word's normalized text, the word leaves
\* the step with that token's pos, lemma, dep, head text and morphology,
\* its other fields as they were, and the cursor is one past that token.
C22_DirectMatch ==
  [][ (/\ WordStep
       /\ NotSpecialCase(CurWord)
       /\ PastPunct(doc, tok) < Len(doc)
       /\ SameText(doc, PastPunct(doc, tok), CurWord)) =>
        /\ AnnotatedFrom(CurWordAfter, doc[PastPunct(doc, tok) + 1])
        /\ SameButAnnotation(CurWord, CurWordAfter)
        /\ tok' = PastPunct(doc, tok) + 1 ]_vars

\* C22 happens: the Tagged Unit is a comma, a blank and "tu"; "Tu." went
\* through the step, carries the annotation of "tu", and the cursor is 3.
C22_Witness ==
  /\ pc = "word"
  /\ widx = 2
  /\ Len(doc) = 3
  /\ doc[1].is_punct /\ doc[2].is_space /\ doc[3].text = <<"t","u">>
  /\ tok = 3
  /\ data.segments[sidx].words[sl[i + 1][1]].text = <<"T","u",".">>
  /\ AnnotatedFrom(data.segments[sidx].words[sl[i + 1][1]], doc[3])

\* The indices (counted from 0) of the word tokens of d from t on that have
\* the normalized text of w.
Hits(d, t, w) == {j \in t..(Len(d) - 1) : WordTokenAt(d, j) /\ SameText(d, j, w)}

Lowest(S) == CHOOSE x \in S : \A y \in S : x <= y

\* C23: in the step for a word that is no special case, when the first word
\* token from the cursor on does not have the word's normalized text, the
\* word is annotated from the first word token from the cursor on that has
\* it and the cursor is one past that token; with no such token the cursor
\* is the length of the Tagged Unit.
C23_ForwardSearch ==
  [][ (/\ WordStep
       /\ NotSpecialCase(CurWord)
       /\ ~(/\ PastPunct(doc, tok) < Len(doc)
            /\ SameText(doc, PastPunct(doc, tok), CurWord))) =>
        IF Hits(doc, tok, CurWord) # {}
        THEN /\ AnnotatedFrom(CurWordAfter, doc[Lowest(Hits(doc, tok, CurWord)) + 1])
             /\ tok' = Lowest(Hits(doc, tok, CurWord)) + 1
        ELSE tok' = Len(doc) ]_vars

\* C23 happens: the Tagged Unit is "si", "tu", "tu"; "Tu." went through
\* the step, carries the annotation of "tu", and the cursor is 2.
C23_Witness ==
  /\ pc = "word"
  /\ widx = 2
  /\ Len(doc) = 3
  /\ doc[1].text = <<"s","i">> /\ doc[2].text = <<"t","u">> /\ doc[3].text = <<"t","u">>
  /\ tok = 2
  /\ data.segments[sidx].words[sl[i + 1][1]].text = <<"T","u",".">>
  /\ AnnotatedFrom(data.segments[sidx].words[sl[i + 1][1]], doc[2])

\* C26: tagging a context window puts the cursor at 0; no step of the word
\* loop moves it back; and a word that is annotated from the Tagged Unit is
\* annotated from a token at or after the cursor, which is then one past
\* that token.  Each word's token therefore lies after that of every
\* earlier word of the sentence, and no token serves two words.
C26_CursorNeverDecreases ==
  [][ /\ (pc = "sent" /\ pc' = "word") => tok' = 0
      /\ WordStep =>
           /\ tok' >= tok
           /\ (NotSpecialCase(CurWord) /\ ~Missed(CurWord, doc, tok)) =>
                /\ tok' > tok
                /\ AnnotatedFrom(CurWordAfter, doc[tok'])
                /\ SameText(doc, tok' - 1, CurWord) ]_vars

\* C26 happens: the Tagged Unit is "tu", "tu", "tu"; the sentence "tu-, tu-,
\* Tu." went through the loop with the cursor at 1, 2 and then 3.
C26_Witness ==
  /\ pc = "word"
  /\ widx = 4
  /\ Len(doc) = 3
  /\ \A j \in 1..3 : doc[j].text = <<"t","u">>
  /\ tok = 3
  /\ \A k \in 1..3 : AnnotatedFrom(data.segments[sidx].words[k], doc[k])

\* C27: the step for a word that is no special case and that no token from
\* the cursor on matches puts the cursor at the length of the Tagged Unit;
\* from there no step of the word loop moves it, and a word that is no
\* special case leaves its step with the empty annotation or the annotation
\* of a token of a single-word tagging; the cursor changes again only when
\* the loop over the sentences goes on, where it is put back to 0.
C27_FallbackExhaustsSentence ==
  [][ /\ (WordStep /\ NotSpecialCase(CurWord) /\ Missed(CurWord, doc, tok)) =>
           tok' = Len(doc)
      /\ (WordStep /\ tok = Len(doc)) =>
           /\ tok' = tok
           /\ NotSpecialCase(CurWord) =>
                \/ AnnotatedEmpty(CurWordAfter, Normalized(Get(CurWord, "text", <<>>)))
                \/ \E t \in nlp : AnnotatedFrom(CurWordAfter, t)
      /\ (tok = Len(doc) /\ tok' # tok) => (pc = "sent" /\ tok' = 0)
    ]_vars

\* C27 happens: the Tagged Unit is the one token "tu"; the sentence "no tu-,"
\* went through the loop, "no" found no token, and "tu-," has the empty
\* annotation although the Tagged Unit has a token with its text.
C27_Witness ==
  /\ pc = "word"
  /\ widx = 3
  /\ Len(doc) = 1
  /\ doc[1].text = <<"t","u">>
  /\ tok = 1
  /\ data.segments[sidx].words[sl[i + 1][1]].text = <<"n","o">>
  /\ data.segments[sidx].words[sl[i + 1][2]].text = <<"t","u","-",",">>
  /\ AnnotatedEmpty(data.segments[sidx].words[sl[i + 1][2]], <<"t","u">>)

\* ------------------------------------------- the passes as transformations

\* The word after differs from the word before in nothing but the entry key
\* of its morph, which the word before has as a dict.
OnlyMorphEntryChanged(before, after, key) ==
  /\ DOMAIN after = DOMAIN before
  /\ \A f \in DOMAIN before \ {"morph"} : after[f] = before[f]
  /\ Has(before, "morph")
  /\ IsDict(before.morph)
  /\ IsDict(after.morph)
  /\ DOMAIN after.morph = DOMAIN before.morph \cup {key}
  /\ \A e \in DOMAIN before.morph \ {key} : after.morph[e] = before.morph[e]

\* C24: after the pass over the past forms every segment has the words it
\* had, and each word is as it was or differs only in the Past_Tense_Type
\* entry of its morph: its text, pos, lemma, dep, head_text and every other
\* entry of its morph are as they were.
C24_OnlyPastTenseTypeChanges ==
  pc = "futures" =>
    \A s \in 1..Len(data.segments) :
      /\ Len(LeftWords(s)) = Len(GivenWords(s))
      /\ DOMAIN data.segments[s] = DOMAIN disk[1].data.segments[s]
      /\ \A k \in 1..Len(GivenWords(s)) :
           \/ LeftWords(s)[k] = GivenWords(s)[k]
           \/ OnlyMorphEntryChanged(GivenWords(s)[k], LeftWords(s)[k], "Past_Tense_Type")

\* C24 happens: of the segment "fui ha ido" the first word is labelled
\* PerfectoSimple and keeps its Tense and VerbForm, the word without morph
\* is as it was, and the participle is labelled too.
C24_Witness ==
  /\ pc = "futures"
  /\ Len(LeftWords(1)) = 3
  /\ LeftWords(1)[1].text = <<"f","u","i">>
  /\ LeftWords(1)[1].morph =
       [Tense |-> {"Past"}, VerbForm |-> {"Fin", "Part"}, Past_Tense_Type |-> "PerfectoSimple"]
  /\ ~Has(LeftWords(1)[2], "morph")
  /\ Label(LeftWords(1)[3], "Past_Tense_Type") = "PerfectoCompuesto"

\* C28: each pass applied to its own output returns it unchanged, and the
\* label a word has after a pass is the one the decision gives for that word
\* alone on the words as they were before any label was written.
C28_PassesIdempotent ==
  /\ pc = "futures" =>
       /\ post_process_compound_tenses(data) = Returns(data)
       /\ \A s \in 1..Len(data.segments) : \A k \in 1..Len(GivenWords(s)) :
            LET alone == classify_past_tense_form(k, GivenWords(s))
            IN  alone.ok /\ LeftWords(s)[k] = alone.val
  /\ pc = "classified" =>
       /\ post_process_compound_futures(data) = Returns(data)
       /\ \A s \in 1..Len(data.segments) : \A k \in 3..Len(GivenWords(s)) :
            LET alone == FutureLabel(GivenWords(s), k - 2)
            IN  alone.ok /\ Label(LeftWords(s)[k], "Future_Type") = alone.val

\* C28 happens: in the segment "fue ido" the auxiliary in the past, labelled
\* first, names the participle, which is labelled OtroCompuesto all the same.
C28_Witness ==
  /\ pc = "classified"
  /\ Len(LeftWords(1)) = 2
  /\ LeftWords(1)[1].text = <<"f","u","e">>
  /\ Label(LeftWords(1)[1], "Past_Tense_Type") = "PastOther"
  /\ LeftWords(1)[2].text = <<"i","d","o">>
  /\ Label(LeftWords(1)[2], "Past_Tense_Type") = "OtroCompuesto"
  /\ LeftWords(2) = <<>>

\* ------------------------------------- the future detector on longer segments

\* The words of "va a ir", as the annotation step leaves them.
TripleWords ==
  { TaggedWord(<<"V","a">>, "AUX", <<"i","r">>, [Tense |-> {"Pres"}]),
    TaggedWord(<<"a">>, "ADP", <<"i","r">>, EmptyDict),
    TaggedWord(<<"i","r">>, "VERB", <<"i","r">>, [VerbForm |-> {"Inf"}]) }

\* The words of the segment before the one under test: none, or "Va a".
LeadSegments ==
  { <<>>,
    << TaggedWord(<<"V","a">>, "AUX", <<"i","r">>, [Tense |-> {"Pres"}]),
       TaggedWord(<<"a">>, "ADP", <<"i","r">>, EmptyDict) >> }

\* The longest segment the detector is applied to.
MaxTripleWords == 7

\* A record of two segments is loaded, as if annotated; the file keeps it.
InitTriples ==
  /\ DbFresh
  /\ nlp = TokenPool
  /\ \E lead \in LeadSegments, words \in SeqsUpTo(TripleWords, MaxTripleWords) :
       /\ data = Transcript(<< Segment(lead), Segment(words) >>)
       /\ disk = << [layout |-> "orig", data |-> data] >>
  /\ pc = "tenses"
  /\ run = 1
  /\ overwrite_existing = FALSE
  /\ filtered_files = <<>>
  /\ progress = [annotated |-> 0, total |-> 0, last_step |-> 0]
  /\ fidx = 1
  /\ sidx = 1
  /\ sl = <<>>
  /\ i = 0
  /\ ctx = <<>>
  /\ text = <<>>
  /\ doc = <<>>
  /\ tok = 0
  /\ widx = 1
  /\ writes = <<>>
  /\ prior = {}
  /\ disk0 = disk

\* The two passes on segments of up to MaxTripleWords words.
SpecTriples == InitTriples /\ [][NextClassify]_vars

\* The positions of the words of segment s that carry a Future_Type.
FutureLabelled(s) ==
  {k \in 1..Len(LeftWords(s)) : Label(LeftWords(s)[k], "Future_Type") # ""}

\* The third positions of the triples of adjacent words of segment s that
\* are to be labelled; a segment of fewer than three words has no triple.
FutureTriples(s) ==
  {first + 2 : first \in {f \in 1..(Len(GivenWords(s)) - 2) :
                           FutureOf(GivenWords(s), f + 2, TRUE) # ""}}

\* C25: once both passes have returned, the words of a segment that carry a
\* Future_Type are the third words of the triples of adjacent words of that
\* segment, each of them: no word is labelled for a triple that begins in
\* the segment before, no word of a segment of fewer than three words is
\* labelled, and a labelled triple hides no later one.
C25_TriplesInsideSegments ==
  pc = "classified" =>
    \A s \in 1..Len(data.segments) :
      /\ FutureLabelled(s) = FutureTriples(s)
      /\ Len(GivenWords(s)) < 3 => FutureLabelled(s) = {}

\* C25 happens: the segment "ir Va a ir Va a ir" follows the segment "Va a";
\* its fourth and seventh words are labelled, its first is not.
C25_Witness ==
  /\ pc = "classified"
  /\ Len(GivenWords(1)) = 2
  /\ GivenWords(1)[1].text = <<"V","a">> /\ GivenWords(1)[2].text = <<"a">>
  /\ Len(GivenWords(2)) = 7
  /\ \A k \in {1, 4, 7} : GivenWords(2)[k].text = <<"i","r">>
  /\ FutureLabelled(2) = {4, 7}
  /\ FutureLabelled(1) = {}

\* ============================================================ database_creation

\* string.punctuation
string_punctuation == PUNCT_CHARS \ {"¿", "¡"}

\* The length of hashlib.md5(...).hexdigest().
HexDigestLen == 32

\* hash_len = 5
FirstHashLen == 5

\* text[:3] if len(text) >= 3 else text
text_part(txt) == IF Len(txt) >= 3 THEN SubSeq(txt, 1, 3) ELSE txt

\* A time of n seconds as the f-string prints the float: "n.0" (n below 10).
FormatSeconds(n) ==
  << <<"0","1","2","3","4","5","6","7","8","9">>[n + 1], ".", "0" >>

\* composite = f"{date}_{st}_{et}_{text_part}"
Composite(date, st, et, txt) ==
  Join(<< date, FormatSeconds(st), FormatSeconds(et), text_part(txt) >>, <<"_">>)

\* HexDigestLen digits: the given ones first, the rest all the same.
Digest(first_digits, digit) ==
  first_digits \o [k \in 1..(HexDigestLen - Len(first_digits)) |-> digit]

\* The date of the recordings of the model.
Date1 == <<"0","5","-","0","1">>

\* hashlib.md5(composite.encode('utf-8')).hexdigest(): MD5 is taken as some
\* function to HexDigestLen hexadecimal digits; two composites of the model
\* have digests with the same first five digits.
md5_hexdigest(composite) ==
  IF composite = Composite(Date1, 1, 2, <<"q","u","e">>)
  THEN Digest(<<"3","f","a","0","c","1">>, "7")
  ELSE IF composite = Composite(Date1, 3, 4, <<"n","o">>)
  THEN Digest(<<"3","f","a","0","c","9">>, "2")
  ELSE Digest(<<"9">>, "e")

\* hash_full[:n]
Prefix(hash_full, n) == SubSeq(hash_full, 1, IF n < Len(hash_full) THEN n ELSE Len(hash_full))

\* f"{country_code}{hash_full[:hash_len]}"
TokenId(country_code, hash_full, n) == country_code \o Prefix(hash_full, n)

\* hash_full of the call under way.
hash_full == md5_hexdigest(Composite(call.date, call.st, call.et, call.text))

\* generate_unique_token_id from its head to its loop (lines 103-108).
Generate(country_code, date, st, et, txt) ==
  /\ call' = [country_code |-> country_code, date |-> date, st |-> st, et |-> et,
              text |-> txt]
  /\ hash_len' = FirstHashLen
  /\ token_id' = TokenId(country_code, md5_hexdigest(Composite(date, st, et, txt)),
                         FirstHashLen)

\* One pass of "while token_id in existing_ids".  hash_len is counted up to
\* one past the length of the hash; from there on the slice, and so the
\* candidate, is the same for every greater value.
Collision ==
  /\ pc = "generate"
  /\ token_id \in existing_ids
  /\ hash_len' = IF hash_len <= HexDigestLen THEN hash_len + 1 ELSE hash_len
  /\ token_id' = TokenId(call.country_code, hash_full, hash_len')
  /\ UNCHANGED <<nlp, disk, pc, run, mainVars, progress, fidx, data, sidx, sentVars, histVars,
                 existing_ids, tokens, annotations, jf, seg_i, word_i, json_modified, call>>

\* ------------------------------------------ generate_unique_token_id, any calls

\* The arguments of the calls: two words with the same composite, and one
\* whose digest begins like theirs.
CallPool ==
  { [country_code |-> <<"A","R">>, date |-> Date1, st |-> 1, et |-> 2,
     text |-> <<"q","u","e">>],
    [country_code |-> <<"A","R">>, date |-> Date1, st |-> 1, et |-> 2,
     text |-> <<"q","u","e","d","o">>],
    [country_code |-> <<"A","R">>, date |-> Date1, st |-> 3, et |-> 4,
     text |-> <<"n","o">>] }

\* No call has been made: existing_ids is empty.
InitIds ==
  /\ DbFresh
  /\ Fresh
  /\ nlp = {}
  /\ disk = <<>>
  /\ pc = "call"
  /\ run = 1
  /\ writes = <<>>
  /\ prior = {}
  /\ disk0 = <<>>

\* generate_unique_token_id is called.
CallGenerate ==
  /\ pc = "call"
  /\ \E c \in CallPool : Generate(c.country_code, c.date, c.st, c.et, c.text)
  /\ pc' = "generate"
  /\ UNCHANGED <<nlp, disk, run, mainVars, progress, fidx, data, sidx, sentVars, histVars,
                 existing_ids, tokens, annotations, jf, seg_i, word_i, json_modified>>

\* The loop is left: existing_ids.add(token_id); return token_id, ...
ReturnId ==
  /\ pc = "generate"
  /\ token_id \notin existing_ids
  /\ existing_ids' = existing_ids \cup {token_id}
  /\ pc' = "call"
  /\ UNCHANGED <<nlp, disk, run, mainVars, progress, fidx, data, sidx, sentVars, histVars,
                 tokens, annotations, jf, seg_i, word_i, json_modified, call, hash_len,
                 token_id>>

NextIds == CallGenerate \/ Collision \/ ReturnId

\* Any sequence of calls of generate_unique_token_id on one set existing_ids.
SpecIds == InitIds /\ [][NextIds]_vars

\* C29 as claimed: the collision loop ends.  Lengthening the prefix changes
\* the candidate only as long as the prefix is shorter than the hash, so
\* the loop ends exactly if, once the prefix is the whole hash, the candidate
\* is not in existing_ids.
C29_CollisionLoopEnds ==
  (pc = "generate" /\ hash_len >= HexDigestLen) => token_id \notin existing_ids

\* --------------------------------------------------------- run_transcription

\* A word of a transcript with its times, in whole seconds.
TimedWord(txt, st, et) == [text |-> txt, start |-> st, end |-> et]

\* The metadata of a transcript around its segments.
Recording(filename, segments) ==
  [filename |-> filename, country_code |-> <<"A","R">>, date |-> Date1,
   segments |-> segments]

\* The transcripts a folder of the model holds: "que , no" and "quedo"
\* followed by a segment without words.
DbTranscripts ==
  { Recording("a.json",
              << Segment(<< TimedWord(<<"q","u","e">>, 1, 2), TimedWord(<<",">>, 2, 3),
                            TimedWord(<<"n","o">>, 3, 4) >>) >>),
    Recording("b.json",
              << Segment(<< TimedWord(<<"q","u","e","d","o">>, 1, 2) >>),
                 [speaker |-> "spk1"] >>) }

\* What a correction of a transcript puts in the place of a word.
DbWords ==
  { TimedWord(<<"q","u","e">>, 1, 2), TimedWord(<<"n","o">>, 3, 4) }

\* The most *.json files the folder holds.
MaxDbFiles == 2

\* How often run_transcription is run on the folder.
MaxDbRuns == 2

\* The folders of up to MaxDbFiles transcripts, no two with the same name.
DbFolders ==
  {q \in SeqsUpTo({[layout |-> "orig", data |-> t] : t \in DbTranscripts}, MaxDbFiles) :
     \A a, b \in 1..Len(q) : a # b => q[a].data.filename # q[b].data.filename}

InitDb ==
  /\ DbFresh
  /\ Fresh
  /\ nlp = {}
  /\ disk \in DbFolders
  /\ pc = "main"
  /\ run = 1
  /\ writes = <<>>
  /\ prior = {}
  /\ disk0 = disk

\* No run is under way: none has been yet, or the last one is committed
\* and the folder is as it left it or has been changed since.
BetweenRuns == pc \in {"main", "committed", "changed"}

\* The folder is as the last run left it; one change is made to it before
\* the next run.
Committed == pc = "committed"

\* run_transcription from its head to the loop over json_files (lines
\* 333-395): both tables are dropped and created anew, existing_ids is empty.
RunTranscription ==
  /\ BetweenRuns
  /\ run <= MaxDbRuns
  /\ tokens' = <<>>
  /\ annotations' = <<>>
  /\ existing_ids' = {}
  /\ jf' = 1
  /\ pc' = "json_files"
  /\ UNCHANGED <<nlp, disk, run, mainVars, progress, fidx, data, sidx, sentVars, histVars,
                 seg_i, word_i, json_modified, call, hash_len, token_id>>

\* The head of "for jf in json_files": the next file is loaded, or the
\* loop is over and both connections are committed.
NextJson ==
  /\ pc = "json_files"
  /\ UNCHANGED <<nlp, disk, mainVars, progress, fidx, sidx, sentVars, histVars,
                 existing_ids, tokens, annotations, jf, call, hash_len, token_id>>
  /\ \/ /\ jf <= Len(disk)
        /\ data' = JsonLoad(disk[jf])
        /\ json_modified' = FALSE
        /\ seg_i' = 1
        /\ word_i' = 1
        /\ pc' = "wlist"
        /\ UNCHANGED run
     \/ /\ jf > Len(disk)
        /\ run' = run + 1
        /\ pc' = "committed"
        /\ UNCHANGED <<data, json_modified, seg_i, word_i>>

ignored_tokens ==
  { <<"(">>, <<")">>, <<"[">>, <<"]">>, <<"!">>, <<"(",".",".",")">>, <<"(",".",")">>,
    <<"(",".",".">>, <<"(",".",".",")",".">>, <<"(",".",".",")",",">>, <<")",".">>,
    <<")","]">>, <<",">>, <<".">> }

\* txt in ignored_tokens or (txt and all(ch in string.punctuation for ch in txt))
IsIgnored(txt) ==
  \/ txt \in ignored_tokens
  \/ txt # <<>> /\ \A k \in 1..Len(txt) : txt[k] \in string_punctuation

\* The segments of the loaded record and the words of the segment at seg_i.
DbSegments == Get(data, "segments", <<>>)

wlist == Get(DbSegments[seg_i], "words", <<>>)

\* The heads of "for seg_i, seg" and "for i, w_obj" up to the call of
\* generate_unique_token_id: no segment left (the record is written if it got
\* a token_id), no word left in the segment, an ignored word, or a word that
\* gets an ID.
NextToken ==
  /\ pc = "wlist"
  /\ UNCHANGED <<nlp, run, mainVars, progress, fidx, sidx, sentVars, histVars,
                 existing_ids, tokens, annotations, json_modified>>
  /\ \/ /\ seg_i > Len(DbSegments)
        /\ disk' = IF json_modified THEN [disk EXCEPT ![jf] = JsonDump(data)] ELSE disk
        /\ jf' = jf + 1
        /\ pc' = "json_files"
        /\ UNCHANGED <<data, seg_i, word_i, call, hash_len, token_id>>
     \/ /\ seg_i <= Len(DbSegments)
        /\ word_i > Len(wlist)
        /\ seg_i' = seg_i + 1
        /\ word_i' = 1
        /\ UNCHANGED <<disk, pc, data, jf, call, hash_len, token_id>>
     \/ /\ seg_i <= Len(DbSegments)
        /\ word_i <= Len(wlist)
        /\ IsIgnored(Strip(Get(wlist[word_i], "text", <<>>)))
        /\ word_i' = word_i + 1
        /\ UNCHANGED <<disk, pc, data, jf, seg_i, call, hash_len, token_id>>
     \/ /\ seg_i <= Len(DbSegments)
        /\ word_i <= Len(wlist)
        /\ ~IsIgnored(Strip(Get(wlist[word_i], "text", <<>>)))
        /\ Generate(Get(data, "country_code", <<"U","N","K">>), Get(data, "date", <<>>),
                    Get(wlist[word_i], "start", 0), Get(wlist[word_i], "end", 0),
                    Strip(Get(wlist[word_i], "text", <<>>)))
        /\ pc' = "generate"
        /\ UNCHANGED <<disk, data, jf, seg_i, word_i>>

\* INSERT OR REPLACE into a table whose token_id is UNIQUE.
InsertOrReplace(table, row) ==
  Append(SelectSeq(table, LAMBDA r : r.token_id # row.token_id), row)

\* The call returns and the word is stored (lines 113-114, 478-523): the
\* ID joins existing_ids, the word of the record gets it unless it has a
\* token_id, and a row goes to each table.  Of the columns, those that tell
\* which word the row is for are kept.
InsertToken ==
  /\ pc = "generate"
  /\ token_id \notin existing_ids
  /\ existing_ids' = existing_ids \cup {token_id}
  /\ LET w_obj == wlist[word_i]
     IN  /\ IF ~Has(w_obj, "token_id")
            THEN /\ data' = SetWord(data, seg_i, word_i, Put(w_obj, "token_id", token_id))
                 /\ json_modified' = TRUE
            ELSE UNCHANGED <<data, json_modified>>
         /\ tokens' = InsertOrReplace(tokens,
                        [token_id |-> token_id,
                         filename |-> Get(data, "filename", jf),
                         country_code |-> call.country_code,
                         date |-> call.date,
                         text |-> call.text,
                         start |-> call.st,
                         end |-> call.et,
                         lemma |-> Get(w_obj, "lemma", <<>>)])
         /\ annotations' = InsertOrReplace(annotations,
                             [token_id |-> token_id,
                              segment_index |-> seg_i - 1,
                              token_index |-> word_i - 1,
                              lemma |-> Get(w_obj, "lemma", <<>>),
                              pos |-> Get(w_obj, "pos", ""),
                              foreign_word |-> Get(w_obj, "foreign", "0")])
  /\ word_i' = word_i + 1
  /\ pc' = "wlist"
  /\ UNCHANGED <<nlp, disk, run, mainVars, progress, fidx, sidx, sentVars, histVars,
                 jf, seg_i, call, hash_len, token_id>>

\* After a run a transcript is put into the folder, at any place of
\* the listing.
AddTranscript ==
  /\ Committed
  /\ Len(disk) < MaxDbFiles
  /\ \E t \in DbTranscripts, place \in 1..(Len(disk) + 1) :
       /\ \A f \in 1..Len(disk) : disk[f].data.filename # t.filename
       /\ disk' = SubSeq(disk, 1, place - 1) \o << [layout |-> "orig", data |-> t] >>
                    \o SubSeq(disk, place, Len(disk))
  /\ pc' = "changed"
  /\ UNCHANGED <<nlp, run, mainVars, progress, fidx, data, sidx, sentVars, histVars, dbVars>>

\* After a run a transcript is taken out of the folder.
RemoveTranscript ==
  /\ Committed
  /\ \E place \in 1..Len(disk) :
       disk' = SubSeq(disk, 1, place - 1) \o SubSeq(disk, place + 1, Len(disk))
  /\ pc' = "changed"
  /\ UNCHANGED <<nlp, run, mainVars, progress, fidx, data, sidx, sentVars, histVars, dbVars>>

\* After a run a word of a transcript is corrected: its text and times
\* are replaced, its other fields stay.
EditTranscript ==
  /\ Committed
  /\ \E f \in 1..Len(disk) :
       \E s \in 1..Len(disk[f].data.segments) :
         \E k \in 1..Len(Get(disk[f].data.segments[s], "words", <<>>)), w \in DbWords :
           /\ \E key \in DOMAIN w : disk[f].data.segments[s].words[k][key] # w[key]
           /\ disk' = [disk EXCEPT ![f].data =
                         SetWord(@, s, k, Update(disk[f].data.segments[s].words[k], w))]
  /\ pc' = "changed"
  /\ UNCHANGED <<nlp, run, mainVars, progress, fidx, data, sidx, sentVars, histVars, dbVars>>

NextDb ==
  \/ RunTranscription
  \/ NextJson
  \/ NextToken
  \/ Collision
  \/ InsertToken
  \/ AddTranscript
  \/ RemoveTranscript
  \/ EditTranscript

\* Up to MaxDbRuns runs of run_transcription on a folder that changes
\* between them.
SpecDb == InitDb /\ [][NextDb]_vars

\* The rows of the two tables that are for the word at k of segment s of
\* file f: a row of tokens with the file's name and the row of annotations
\* with the same token_id and the word's place.
RowsOf(f, s, k) ==
  {r \in {<<tokens[a], annotations[b]>> : a \in 1..Len(tokens), b \in 1..Len(annotations)} :
     /\ r[1].token_id = r[2].token_id
     /\ r[1].filename = disk[f].data.filename
     /\ r[2].segment_index = s - 1
     /\ r[2].token_index = k - 1}

\* C30 as claimed: when a run has been committed, every word of the folder
\* that has a row in the table tokens carries, in its transcript, the
\* token_id of its rows in tokens and annotations.
C30_TranscriptIdIsRowId ==
  pc = "committed" =>
    \A f \in 1..Len(disk) : \A s \in 1..Len(disk[f].data.segments) :
      \A k \in 1..Len(Get(disk[f].data.segments[s], "words", <<>>)) :
        \A r \in RowsOf(f, s, k) :
          /\ Has(disk[f].data.segments[s].words[k], "token_id")
          /\ disk[f].data.segments[s].words[k].token_id = r[1].token_id
====
